---- MODULE Spec2Model ----
(***************************************************************************)
(* Graph-based conversation flow of the caller service: GraphService       *)
(* (src/src/graph/graph.service.ts) on top of the graph-state part of      *)
(* LogsStorage (src/src/logger/logs.storage.ts).                           *)
(*                                                                         *)
(* Strings.  A string is a sequence of symbols.  Text that the code        *)
(* inspects (user names, user messages) is a sequence of one-character     *)
(* strings.  The fixed texts of the program (questions, clarifications,    *)
(* closing messages), which the code only copies, are kept as sequences    *)
(* holding the whole text as one symbol; the empty string is <<>>.         *)
(***************************************************************************)
EXTENDS Integers, Sequences, FiniteSets, TLC

\* ------------------------------------------------------------------------
\* JavaScript values
\* ------------------------------------------------------------------------

\* A nullable value (T | null | undefined) is the empty set or a singleton.
Null == {}

Some(v) == {v}

Get(x) == CHOOSE v \in x : TRUE

\* a ?? b
Coalesce(a, b) == IF a # Null THEN a ELSE b

\* const name = value; body -- the value is computed once and named in Body
With(value, Body(_)) == Body(value)

\* A JavaScript number is kept as an exact decimal m * 10^(-e), normalised
\* so that equal numbers have equal representations.
RECURSIVE Num(_, _)
Num(m, e) ==
    IF e > 0 /\ m % 10 = 0 THEN Num(m \div 10, e - 1) ELSE [m |-> m, e |-> e]

\* Infinity, the number JavaScript gives a numeral beyond the largest double
\* (1.7976931348623157e308)
Infinity == [m |-> 1, e |-> 0, inf |-> TRUE]

\* Number.isFinite
IsFinite(x) == x # Infinity

NumTimes(x, k) == IF IsFinite(x) THEN Num(x.m * k, x.e) ELSE x

\* ------------------------------------------------------------------------
\* String primitives
\* ------------------------------------------------------------------------

LowerLetters == <<"a","b","c","d","e","f","g","h","i","j","k","l","m","n","o","p","q","r","s","t","u","v","w","x","y","z">>

UpperLetters == <<"A","B","C","D","E","F","G","H","I","J","K","L","M","N","O","P","Q","R","S","T","U","V","W","X","Y","Z">>

DigitChars == <<"0","1","2","3","4","5","6","7","8","9">>

Range(s) == {s[i] : i \in DOMAIN s}

Letters == Range(LowerLetters) \cup Range(UpperLetters)

\* A run of 309 nines, kept as one symbol of a message (a digit to \d, to
\* \w and to \b; never offered to a pattern that counts digits): the
\* numeral it is part of has 309 digits or more and is beyond the largest
\* double.
NinesRun == "999...9 (309 nines)"

Digits == Range(DigitChars) \cup {NinesRun}

\* \w
WordChars == Letters \cup Digits \cup {"_"}

\* \s
Whitespace == {" ", "\t", "\n", "\r"}

toLowerChar(c) ==
    IF \E i \in DOMAIN UpperLetters : UpperLetters[i] = c
    THEN LowerLetters[CHOOSE i \in DOMAIN UpperLetters : UpperLetters[i] = c]
    ELSE c

toLowerCase(s) == [i \in 1..Len(s) |-> toLowerChar(s[i])]

RECURSIVE trimStart(_)
trimStart(s) ==
    IF s # <<>> /\ Head(s) \in Whitespace THEN trimStart(Tail(s)) ELSE s

RECURSIVE trimEnd(_)
trimEnd(s) ==
    IF s # <<>> /\ s[Len(s)] \in Whitespace
    THEN trimEnd(SubSeq(s, 1, Len(s) - 1))
    ELSE s

trim(s) == trimEnd(trimStart(s))

\* s.slice(from - 1), 1-based
SliceFrom(s, from) == SubSeq(s, from, Len(s))

endsWith(s, w) ==
    Len(s) >= Len(w) /\ SubSeq(s, Len(s) - Len(w) + 1, Len(s)) = w

\* 1-based index of the first occurrence of w in s, 0 when there is none
RECURSIVE indexOfFrom(_, _, _)
indexOfFrom(s, w, i) ==
    IF i + Len(w) - 1 > Len(s) THEN 0
    ELSE IF SubSeq(s, i, i + Len(w) - 1) = w THEN i
    ELSE indexOfFrom(s, w, i + 1)

indexOf(s, w) == indexOfFrom(s, w, 1)

includes(s, w) == indexOf(s, w) # 0

\* s.replace(w, "") with a string pattern: the first occurrence only
replaceFirst(s, w) ==
    With(indexOf(s, w), LAMBDA i :
        IF i = 0 THEN s
        ELSE SubSeq(s, 1, i - 1) \o SubSeq(s, i + Len(w), Len(s)))

\* s.replace(/[set]/g, "")
RECURSIVE removeChars(_, _)
removeChars(s, set) ==
    IF s = <<>> THEN <<>>
    ELSE IF Head(s) \in set THEN removeChars(Tail(s), set)
    ELSE <<Head(s)>> \o removeChars(Tail(s), set)

\* ------------------------------------------------------------------------
\* Numbers from text
\* ------------------------------------------------------------------------

DigitValue(c) == (CHOOSE i \in DOMAIN DigitChars : DigitChars[i] = c) - 1

\* number of leading digits of s from position i on
RECURSIVE digitRun(_, _)
digitRun(s, i) ==
    IF i <= Len(s) /\ s[i] \in Digits THEN 1 + digitRun(s, i + 1) ELSE 0

RECURSIVE digitsValue(_, _, _)
digitsValue(s, i, n) ==
    IF n = 0 THEN 0
    ELSE 10 * digitsValue(s, i, n - 1) + DigitValue(s[i + n - 1])

\* the numeral of n digits at position i is beyond the largest double
Overflows(s, i, n) == \E j \in i..(i + n - 1) : s[j] = NinesRun

\* parseFloat(s): optional sign, digits, optional fraction; Null for NaN.
\* (No input of the model writes an exponent or "Infinity".)
signOf(s) == IF s # <<>> /\ Head(s) = "-" THEN -1 ELSE 1

\* the position after an optional sign
afterSign(s) == IF s # <<>> /\ Head(s) \in {"-", "+"} THEN 2 ELSE 1

\* number of digits of the fraction that follows ni digits from p on
fractionRun(s, p, ni) ==
    IF p + ni <= Len(s) /\ s[p + ni] = "." THEN digitRun(s, p + ni + 1) ELSE 0

parseFloat(str) ==
    With(trimStart(str), LAMBDA s :
    With(afterSign(s), LAMBDA p :
    With(digitRun(s, p), LAMBDA ni :
    With(fractionRun(s, p, ni), LAMBDA nf :
        IF ni = 0 /\ nf = 0 THEN Null
        ELSE IF Overflows(s, p, ni) THEN Some(Infinity)
        ELSE Some(Num(signOf(s) * (digitsValue(s, p, ni) * (10 ^ nf)
                                   + digitsValue(s, p + ni + 1, nf)), nf))))))

\* parseInt(s, 10): optional sign and digits; Null for NaN.
parseInt(str) ==
    With(trimStart(str), LAMBDA s :
    With(digitRun(s, afterSign(s)), LAMBDA ni :
        IF ni = 0 THEN Null
        ELSE IF Overflows(s, afterSign(s), ni) THEN Some(Infinity)
        ELSE Some(Num(signOf(s) * digitsValue(s, afterSign(s), ni), 0))))

\* ------------------------------------------------------------------------
\* Regular expressions (the backtracking matcher of JavaScript's RegExp)
\* ------------------------------------------------------------------------
\* A pattern is a record: Chr(set), Lit(word), WB (\b), Cat, Alt, greedy
\* Rep and the capturing group Grp.  A match state is the position of the
\* next character and the spans <<from, to>> of the capture groups 1 and 2.

Chr(set) == [t |-> "chr", set |-> set]

Lit(w) == [t |-> "lit", w |-> w]

WB == [t |-> "wb"]

Cat(items) == [t |-> "seq", items |-> items]

Alt(items) == [t |-> "alt", items |-> items]

Rep(r, min, max) ==
    [t |-> "rep", lazy |-> FALSE, r |-> r, min |-> min, max |-> max]

Grp(id, r) == [t |-> "grp", id |-> id, r |-> r]

\* the lazy form r{min,max}?
RepLazy(r, min, max) ==
    [t |-> "rep", lazy |-> TRUE, r |-> r, min |-> min, max |-> max]

\* a max of -1 is "no upper limit"
Opt(r) == Rep(r, 0, 1)

Star(r) == Rep(r, 0, -1)

Plus(r) == Rep(r, 1, -1)

NoCaps == << <<0, 0>>, <<0, 0>> >>

IsWordAt(s, i) == i >= 1 /\ i <= Len(s) /\ s[i] \in WordChars

\* The match states reachable from st by matching re, in the order in
\* which the backtracking matcher tries them.
RECURSIVE Match(_, _, _)
RECURSIVE MatchSeq(_, _, _)
RECURSIVE MatchSeqAll(_, _, _)
RECURSIVE MatchAlt(_, _, _)
RECURSIVE MatchRep(_, _, _)
RECURSIVE MatchRepAll(_, _, _, _)
RECURSIVE SetCap(_, _, _)

SetCap(sts, id, from) ==
    IF sts = <<>> THEN <<>>
    ELSE << [Head(sts) EXCEPT !.caps[id] = <<from, Head(sts).pos>>] >>
         \o SetCap(Tail(sts), id, from)

Match(re, s, st) ==
    CASE re.t = "chr" ->
           IF st.pos <= Len(s) /\ s[st.pos] \in re.set
           THEN << [st EXCEPT !.pos = st.pos + 1] >>
           ELSE <<>>
      [] re.t = "lit" ->
           IF st.pos + Len(re.w) - 1 <= Len(s)
              /\ SubSeq(s, st.pos, st.pos + Len(re.w) - 1) = re.w
           THEN << [st EXCEPT !.pos = st.pos + Len(re.w)] >>
           ELSE <<>>
      [] re.t = "wb" ->
           IF IsWordAt(s, st.pos - 1) # IsWordAt(s, st.pos)
           THEN <<st>>
           ELSE <<>>
      [] re.t = "seq" -> MatchSeq(re.items, s, st)
      [] re.t = "alt" -> MatchAlt(re.items, s, st)
      [] re.t = "rep" -> MatchRep(re, s, st)
      [] re.t = "grp" -> SetCap(Match(re.r, s, st), re.id, st.pos)

MatchSeq(items, s, st) ==
    IF items = <<>> THEN <<st>>
    ELSE MatchSeqAll(Tail(items), s, Match(Head(items), s, st))

MatchSeqAll(items, s, sts) ==
    IF sts = <<>> THEN <<>>
    ELSE MatchSeq(items, s, Head(sts)) \o MatchSeqAll(items, s, Tail(sts))

MatchAlt(items, s, st) ==
    IF items = <<>> THEN <<>>
    ELSE Match(Head(items), s, st) \o MatchAlt(Tail(items), s, st)

\* a quantifier after one iteration
Less(re) ==
    [re EXCEPT !.min = IF re.min > 0 THEN re.min - 1 ELSE 0,
               !.max = IF re.max > 0 THEN re.max - 1 ELSE re.max]

MatchRep(re, s, st) ==
    LET more == IF re.max # 0
                THEN MatchRepAll(re, s, Match(re.r, s, st), st.pos)
                ELSE <<>>
        stop == IF re.min <= 0 THEN <<st>> ELSE <<>>
    IN  IF re.lazy THEN stop \o more ELSE more \o stop

\* one more iteration from each state the first one can end in (an
\* iteration that consumes nothing is not repeated)
MatchRepAll(re, s, sts, from) ==
    IF sts = <<>> THEN <<>>
    ELSE (IF Head(sts).pos > from
          THEN MatchRep(Less(re), s, Head(sts))
          ELSE IF re.min <= 1 THEN <<Head(sts)>> ELSE <<>>)
         \o MatchRepAll(re, s, Tail(sts), from)

\* The leftmost match of re in s (s.match(re) without the g flag), or Null:
\* [index, end, caps], the match being s[index .. end - 1].
RECURSIVE SearchFrom(_, _, _)
SearchFrom(re, s, i) ==
    IF i > Len(s) + 1 THEN Null
    ELSE With(Match(re, s, [pos |-> i, caps |-> NoCaps]), LAMBDA found :
             IF found # <<>>
             THEN Some([index |-> i, end |-> Head(found).pos,
                        caps |-> Head(found).caps])
             ELSE SearchFrom(re, s, i + 1))

Search(re, s) == SearchFrom(re, s, 1)

\* re.test(s)
Test(re, s) == Search(re, s) # Null

\* match[0]
Matched(s, m) == SubSeq(s, m.index, m.end - 1)

\* match[id]
Group(s, m, id) == SubSeq(s, m.caps[id][1], m.caps[id][2] - 1)

\* /.../i on s: the pattern is written in lower case and run on the
\* lower-cased text; positions are those of s.
SearchI(re, s) == Search(re, toLowerCase(s))

TestI(re, s) == Test(re, toLowerCase(s))

\* s.match(/\d+(?:\.\d+)?/g): all non-overlapping matches, left to right
RECURSIVE MatchAllFrom(_, _, _)
MatchAllFrom(re, s, i) ==
    With(SearchFrom(re, s, i), LAMBDA m :
        IF m = Null THEN <<>>
        ELSE <<Matched(s, Get(m))>>
             \o MatchAllFrom(re, s, IF Get(m).end > Get(m).index
                                    THEN Get(m).end ELSE Get(m).end + 1))

\* /\b(w1|w2|...)\b/ for a sequence of words
Words(ws) == Cat(<<WB, Alt([i \in 1..Len(ws) |-> Lit(ws[i])]), WB>>)

\* ------------------------------------------------------------------------
\* Values of type "any" (extracted values): tagged by their typeof
\* ------------------------------------------------------------------------

StrV(text) == [type |-> "string", v |-> text]

NumV(n) == [type |-> "number", v |-> n]

ObjV(fields) == [type |-> "object", v |-> fields]

NullV == [type |-> "null"]

\* number | null as a value of type any
NumOrNullV(x) == IF x = Null THEN NullV ELSE NumV(Get(x))

\* the truthiness of a value of type any
Truthy(x) ==
    CASE x.type = "string" -> x.v # <<>>
      [] x.type = "number" -> x.v.m # 0
      [] x.type = "object" -> TRUE
      [] OTHER -> FALSE

\* ------------------------------------------------------------------------
\* Validation helpers of GraphService
\* ------------------------------------------------------------------------

Valid(value) ==
    [isValid |-> TRUE, extractedValue |-> value, clarificationNeeded |-> <<>>]

Invalid(clarification) ==
    [isValid |-> FALSE, extractedValue |-> NullV,
     clarificationNeeded |-> clarification]

YesRe ==
    Words(<<<<"y","e","s">>, <<"y","e","a","h">>, <<"s","u","r","e">>, <<"d","e","f","i","n","i","t","e","l","y">>, <<"a","b","s","o","l","u","t","e","l","y">>, <<"y","e","p">>,
            <<"y","u","p">>, <<"c","o","r","r","e","c","t">>, <<"r","i","g","h","t">>, <<"t","r","u","e">>, <<"i"," ","d","o">>, <<"i"," ","a","m">>,
            <<"i"," ","h","a","v","e">>>>)

NoRe ==
    Words(<<<<"n","o">>, <<"n","o","p","e">>, <<"n","o","t"," ","r","e","a","l","l","y">>, <<"n","e","v","e","r">>, <<"n","a","h">>, <<"n","e","g","a","t","i","v","e">>,
            <<"i"," ","d","o","n","'","t">>, <<"i"," ","h","a","v","e","n","'","t">>, <<"n","o","t"," ","y","e","t">>>>)

YesNoClarification ==
    <<"I didn't quite catch that. Could you please answer with yes or no?">>

\* a variant with a plausible bug: the negative keywords are tried first
validateYesNoNegativeFirst(response) ==
    With(trim(toLowerCase(response)), LAMBDA userMessage :
        IF Test(NoRe, userMessage) THEN Valid(StrV(<<"no">>))
        ELSE IF Test(YesRe, userMessage) THEN Valid(StrV(<<"yes">>))
        ELSE Invalid(YesNoClarification))

validateYesNo(response) ==
    With(trim(toLowerCase(response)), LAMBDA userMessage :
        IF Test(YesRe, userMessage) THEN Valid(StrV(<<"yes">>))
        ELSE IF Test(NoRe, userMessage) THEN Valid(StrV(<<"no">>))
        ELSE Invalid(YesNoClarification))

\* isNaN(num) ? null : num * factor
timesOrNull(num, factor) ==
    IF num = Null THEN Null ELSE Some(NumTimes(Get(num), factor))

parsePriceToNumber(priceStr) ==
    IF priceStr = <<>> THEN Null
    ELSE
    With(toLowerCase(removeChars(priceStr, {"$", ","} \cup Whitespace)),
         LAMBDA cleaned :
        IF endsWith(cleaned, <<"k">>)
        THEN timesOrNull(parseFloat(SubSeq(cleaned, 1, Len(cleaned) - 1)), 1000)
        ELSE IF endsWith(cleaned, <<"m">>) \/ includes(cleaned, <<"m","i","l","l","i","o","n">>)
        THEN timesOrNull(
                 parseFloat(replaceFirst(replaceFirst(cleaned, <<"m","i","l","l","i","o","n">>), <<"m">>)),
                 1000000)
        ELSE IF includes(cleaned, <<"t","h","o","u","s","a","n","d">>)
        THEN timesOrNull(parseFloat(replaceFirst(cleaned, <<"t","h","o","u","s","a","n","d">>)), 1000)
        ELSE parseFloat(cleaned))

\* \s*
Spaces == Star(Chr(Whitespace))

\* \$?\s*
Dollar == Cat(<<Opt(Lit(<<"$">>)), Spaces>>)

\* \d{1,3}(?:,\d{3})*
GroupedDigits ==
    Cat(<<Rep(Chr(Digits), 1, 3), Star(Cat(<<Lit(<<",">>), Rep(Chr(Digits), 3, 3)>>))>>)

\* \d{1,3}(?:,\d{3})*(?:\.\d+)?
Amount == Cat(<<GroupedDigits, Opt(Cat(<<Lit(<<".">>), Plus(Chr(Digits))>>))>>)

\* (?:k|K|thousand|m|M|million)? under /i
Magnitude ==
    Opt(Alt(<<Lit(<<"k">>), Lit(<<"k">>), Lit(<<"t","h","o","u","s","a","n","d">>), Lit(<<"m">>), Lit(<<"m">>),
              Lit(<<"m","i","l","l","i","o","n">>)>>))

\* (?:k|K|thousand), case-sensitive
Thousands == Alt(<<Lit(<<"k">>), Lit(<<"K">>), Lit(<<"t","h","o","u","s","a","n","d">>)>>)

\* the two range patterns (both /i)
rangePatterns ==
    << Cat(<<Dollar, Grp(1, Amount), Spaces, Magnitude, Spaces,
             Alt(<<Lit(<<"-">>), Lit(<<"t","o">>), Lit(<<"a","n","d">>)>>), Spaces,
             Dollar, Grp(2, Amount), Spaces, Magnitude>>),
       Cat(<<Lit(<<"b","e","t","w","e","e","n">>), Spaces, Dollar, Grp(1, Amount), Spaces,
             Magnitude, Spaces, Alt(<<Lit(<<"a","n","d">>), Lit(<<"t","o">>)>>), Spaces,
             Dollar, Grp(2, Amount), Spaces, Magnitude>>) >>

\* /(-|to|and)/i
SeparatorRe == Alt(<<Lit(<<"-">>), Lit(<<"t","o">>), Lit(<<"a","n","d">>)>>)

\* the four single-price patterns with their /i flag
singlePatterns ==
    << [re |-> Cat(<<Dollar, Grp(1, Amount), Spaces, Opt(Thousands)>>),
        i |-> FALSE],
       [re |-> Cat(<<Dollar, Grp(1, Plus(Chr(Digits))), Spaces, Thousands>>),
        i |-> FALSE],
       [re |-> Cat(<<Grp(1, GroupedDigits), Spaces,
                     Opt(Cat(<<Lit(<<"d","o","l","l","a","r">>), Opt(Lit(<<"s">>))>>))>>),
        i |-> FALSE],
       [re |-> Cat(<<Alt(<<Lit(<<"a","r","o","u","n","d">>), Lit(<<"a","b","o","u","t">>), Lit(<<"a","p","p","r","o","x","i","m","a","t","e","l","y">>),
                           Lit(<<"r","o","u","g","h","l","y">>)>>), Spaces, Dollar,
                     Grp(1, Plus(Chr(Digits))), Spaces, Magnitude>>),
        i |-> TRUE] >>

PriceResult(response, min, max) ==
    [raw |-> response, min |-> min, max |-> max, currency |-> <<"USD">>]

\* the loop over singlePatterns, from pattern k on
\* response.match(p) for a pattern with its /i flag
matchPattern(p, response) ==
    IF p.i THEN SearchI(p.re, response) ELSE Search(p.re, response)

\* the price of match[0], when there is a match
matchedPrice(response, match) ==
    IF match = Null THEN Null
    ELSE parsePriceToNumber(Matched(response, Get(match)))

RECURSIVE extractSinglePrice(_, _)
extractSinglePrice(response, k) ==
    IF k > Len(singlePatterns) THEN PriceResult(response, Null, Null)
    ELSE With(matchedPrice(response, matchPattern(singlePatterns[k], response)),
              LAMBDA price :
             IF price # Null THEN PriceResult(response, price, price)
             ELSE extractSinglePrice(response, k + 1))

\* the loop over rangePatterns, from pattern k on, then the single prices
RECURSIVE extractRange(_, _)
extractRange(response, k) ==
    IF k > Len(rangePatterns) THEN extractSinglePrice(response, 1)
    ELSE With(SearchI(rangePatterns[k], response), LAMBDA match :
             IF match = Null THEN extractRange(response, k + 1)
             ELSE With(Matched(response, Get(match)), LAMBDA fullMatch :
                  With(Get(SearchI(SeparatorRe, fullMatch)).index, LAMBDA sep :
                      PriceResult(response,
                                  parsePriceToNumber(SubSeq(fullMatch, 1, sep - 1)),
                                  parsePriceToNumber(SliceFrom(fullMatch, sep))))))

extractPriceRange(response) == extractRange(response, 1)

NotSureRe ==
    Words(<<<<"n","o","t"," ","s","u","r","e">>, <<"d","o","n","'","t"," ","k","n","o","w">>, <<"n","o"," ","i","d","e","a">>, <<"u","n","s","u","r","e">>, <<"h","a","v","e","n","'","t"," ","d","e","c","i","d","e","d">>>>)

PriceClarification ==
    <<"Could you give me a rough price range you have in mind? For example, $200,000 or around $300k?">>

validatePriceRange(response) ==
    IF TestI(NotSureRe, response)
    THEN Valid(ObjV([raw |-> response, min |-> NullV, max |-> NullV,
                     currency |-> <<"USD">>, status |-> <<"not_sure">>]))
    ELSE With(extractPriceRange(response), LAMBDA priceResult :
             IF priceResult.min # Null \/ priceResult.max # Null
             THEN Valid(ObjV([raw |-> priceResult.raw,
                              min |-> NumOrNullV(priceResult.min),
                              max |-> NumOrNullV(priceResult.max),
                              currency |-> priceResult.currency]))
             ELSE Invalid(PriceClarification))

\* \d+(?:\.\d+)?
Decimal == Cat(<<Plus(Chr(Digits)), Opt(Cat(<<Lit(<<".">>), Plus(Chr(Digits))>>))>>)

\* (?:bed(?:room)?s?|br)
BedWord ==
    Alt(<<Cat(<<Lit(<<"b","e","d">>), Opt(Lit(<<"r","o","o","m">>)), Opt(Lit(<<"s">>))>>), Lit(<<"b","r">>)>>)

\* (?:bath(?:room)?s?|ba)
BathWord ==
    Alt(<<Cat(<<Lit(<<"b","a","t","h">>), Opt(Lit(<<"r","o","o","m">>)), Opt(Lit(<<"s">>))>>), Lit(<<"b","a">>)>>)

\* the three bedroom/bathroom patterns with their /i flag
roomPatterns ==
    << [re |-> Cat(<<Grp(1, Plus(Chr(Digits))), Spaces, BedWord, Spaces,
                     Alt(<<Lit(<<"a","n","d">>), Lit(<<",">>), Lit(<<"/">>), Chr(Whitespace)>>),
                     Spaces, Grp(2, Decimal), Spaces, BathWord>>),
        i |-> TRUE],
       [re |-> Cat(<<Grp(1, Plus(Chr(Digits))), Spaces, Lit(<<"/">>), Spaces,
                     Grp(2, Decimal)>>),
        i |-> FALSE],
       [re |-> Cat(<<Grp(1, Plus(Chr(Digits))), Plus(Chr(Whitespace)),
                     Grp(2, Decimal)>>),
        i |-> FALSE] >>

RoomsResult(response, bedrooms, bathrooms) ==
    ObjV([bedrooms |-> NumOrNullV(bedrooms), bathrooms |-> NumOrNullV(bathrooms),
          raw |-> response])

RoomsClarification ==
    <<"Could you tell me how many bedrooms and bathrooms the property has? For example, '3 bedrooms and 2 bathrooms'.">>

\* what follows the loop over the patterns
\* match ? parseInt(match[1], 10) : null
intOfGroup(response, match) ==
    IF match = Null THEN Null ELSE parseInt(Group(response, Get(match), 1))

\* match ? parseFloat(match[1]) : null
floatOfGroup(response, match) ==
    IF match = Null THEN Null ELSE parseFloat(Group(response, Get(match), 1))

roomsFallback(response) ==
    With(intOfGroup(response,
             SearchI(Cat(<<Grp(1, Plus(Chr(Digits))), Spaces, BedWord>>), response)),
         LAMBDA bedrooms :
    With(floatOfGroup(response,
             SearchI(Cat(<<Grp(1, Decimal), Spaces, BathWord>>), response)),
         LAMBDA bathrooms :
        IF bedrooms # Null \/ bathrooms # Null
        THEN Valid(RoomsResult(response, bedrooms, bathrooms))
        ELSE With(MatchAllFrom(Decimal, response, 1), LAMBDA numbers :
                 IF Len(numbers) >= 2
                 THEN Valid(RoomsResult(response, parseInt(numbers[1]),
                                        parseFloat(numbers[2])))
                 ELSE Invalid(RoomsClarification))))

RECURSIVE validateRooms(_, _)
validateRooms(response, k) ==
    IF k > Len(roomPatterns) THEN roomsFallback(response)
    ELSE With(matchPattern(roomPatterns[k], response), LAMBDA match :
             IF match # Null
             THEN Valid(RoomsResult(response,
                                    parseInt(Group(response, Get(match), 1)),
                                    parseFloat(Group(response, Get(match), 2))))
             ELSE validateRooms(response, k + 1))

validateBedroomsBathrooms(response) == validateRooms(response, 1)

\* /\b([1-9]|10)\b/
ScaleRe ==
    Cat(<<WB, Grp(1, Alt(<<Chr(Digits \ {"0"}), Lit(<<"1","0">>)>>)), WB>>)

\* conditionWords, in the order of the object literal
conditionWords ==
    << [word |-> <<"e","x","c","e","l","l","e","n","t">>, value |-> 10], [word |-> <<"p","e","r","f","e","c","t">>, value |-> 10],
       [word |-> <<"g","r","e","a","t">>, value |-> 9], [word |-> <<"v","e","r","y"," ","g","o","o","d">>, value |-> 8],
       [word |-> <<"g","o","o","d">>, value |-> 7], [word |-> <<"d","e","c","e","n","t">>, value |-> 6],
       [word |-> <<"o","k","a","y">>, value |-> 5], [word |-> <<"o","k">>, value |-> 5],
       [word |-> <<"f","a","i","r">>, value |-> 5], [word |-> <<"a","v","e","r","a","g","e">>, value |-> 5],
       [word |-> <<"n","e","e","d","s"," ","w","o","r","k">>, value |-> 4], [word |-> <<"p","o","o","r">>, value |-> 3],
       [word |-> <<"b","a","d">>, value |-> 2], [word |-> <<"t","e","r","r","i","b","l","e">>, value |-> 1] >>

ScaleClarification ==
    <<"Could you rate the condition on a scale of 1 to 10, where 10 is excellent and 1 is poor?">>

RECURSIVE scaleWord(_, _)
scaleWord(lowerResponse, k) ==
    IF k > Len(conditionWords) THEN Invalid(ScaleClarification)
    ELSE IF includes(lowerResponse, conditionWords[k].word)
    THEN Valid(NumV(Num(conditionWords[k].value, 0)))
    ELSE scaleWord(lowerResponse, k + 1)

validateScale(response) ==
    With(Search(ScaleRe, response), LAMBDA scaleMatch :
        IF scaleMatch # Null
        THEN Valid(NumOrNullV(parseInt(Group(response, Get(scaleMatch), 1))))
        ELSE scaleWord(toLowerCase(response), 1))

TenantRe == Words(<<<<"t","e","n","a","n","t">>, <<"r","e","n","t","e","r">>, <<"r","e","n","t">>, <<"l","e","a","s","e","d">>, <<"r","e","n","t","i","n","g">>>>)

OwnerRe ==
    Words(<<<<"o","w","n","e","r">>, <<"m","y","s","e","l","f">>, <<"m","e">>, <<"i"," ","l","i","v","e">>, <<"w","e"," ","l","i","v","e">>, <<"o","c","c","u","p","i","e","d"," ","b","y"," ","m","e">>,
            <<"m","y"," ","h","o","m","e">>, <<"v","a","c","a","n","t">>, <<"e","m","p","t","y">>>>)

OccupancyClarification ==
    <<"Is the property currently occupied by you, or do you have tenants renting it?">>

validateOccupancy(response) ==
    With(toLowerCase(response), LAMBDA lowerResponse :
        IF Test(TenantRe, lowerResponse) THEN Valid(StrV(<<"tenant">>))
        ELSE IF Test(OwnerRe, lowerResponse) THEN Valid(StrV(<<"owner">>))
        ELSE Invalid(OccupancyClarification))

AnnualRe == Words(<<<<"a","n","n","u","a","l">>, <<"y","e","a","r">>, <<"y","e","a","r","l","y">>, <<"1","2"," ","m","o","n","t","h">>, <<"o","n","e"," ","y","e","a","r">>>>)

MonthlyRe == Words(<<<<"m","o","n","t","h">>, <<"m","o","n","t","h","l","y">>, <<"m","o","n","t","h","-","t","o","-","m","o","n","t","h">>, <<"m","t","m">>>>)

LeaseTypeClarification ==
    <<"Is it an annual lease or a month-to-month arrangement?">>

validateLeaseType(response) ==
    With(toLowerCase(response), LAMBDA lowerResponse :
        IF Test(AnnualRe, lowerResponse) THEN Valid(StrV(<<"annual">>))
        ELSE IF Test(MonthlyRe, lowerResponse) THEN Valid(StrV(<<"monthly">>))
        ELSE Invalid(LeaseTypeClarification))

MonthNames ==
    <<<<"j","a","n","u","a","r","y">>, <<"f","e","b","r","u","a","r","y">>, <<"m","a","r","c","h">>, <<"a","p","r","i","l">>, <<"m","a","y">>, <<"j","u","n","e">>, <<"j","u","l","y">>,
      <<"a","u","g","u","s","t">>, <<"s","e","p","t","e","m","b","e","r">>, <<"o","c","t","o","b","e","r">>, <<"n","o","v","e","m","b","e","r">>, <<"d","e","c","e","m","b","e","r">>>>

\* the four date patterns with their /i flag
datePatterns ==
    << [re |-> Cat(<<WB, Rep(Chr(Digits), 1, 2), Lit(<<"/">>), Rep(Chr(Digits), 1, 2),
                     Lit(<<"/">>), Rep(Chr(Digits), 2, 4), WB>>),
        i |-> FALSE],
       [re |-> Cat(<<WB, Alt([k \in 1..Len(MonthNames) |-> Lit(MonthNames[k])]),
                     Spaces, RepLazy(Chr(Digits), 1, 2), Opt(Lit(<<",">>)), Spaces,
                     RepLazy(Chr(Digits), 2, 4), WB>>),
        i |-> TRUE],
       [re |-> Cat(<<WB, Rep(Chr(Digits), 1, 2), Spaces,
                     Alt(<<Cat(<<Lit(<<"m","o","n","t","h">>), Opt(Lit(<<"s">>))>>),
                           Cat(<<Lit(<<"w","e","e","k">>), Opt(Lit(<<"s">>))>>),
                           Cat(<<Lit(<<"d","a","y">>), Opt(Lit(<<"s">>))>>)>>), WB>>),
        i |-> TRUE],
       [re |-> Words(<<<<"n","e","x","t"," ","m","o","n","t","h">>, <<"n","e","x","t"," ","y","e","a","r">>, <<"e","n","d"," ","o","f"," ","y","e","a","r">>, <<"s","o","o","n">>>>),
        i |-> TRUE] >>

DateClarification ==
    <<"When does the current lease expire? You can give me a date or approximate timeframe.">>

RECURSIVE validateDateFrom(_, _)
validateDateFrom(response, k) ==
    IF k > Len(datePatterns)
    THEN IF Len(trim(response)) > 2 THEN Valid(StrV(response))
         ELSE Invalid(DateClarification)
    ELSE With(matchPattern(datePatterns[k], response), LAMBDA match :
             IF match # Null THEN Valid(StrV(Matched(response, Get(match))))
             ELSE validateDateFrom(response, k + 1))

validateDate(response) == validateDateFrom(response, 1)

\* /[a-zA-Z0-9._%+-]+@[a-zA-Z0-9.-]+\.[a-zA-Z]{2,}/
EmailRe ==
    Cat(<<Plus(Chr(Letters \cup Digits \cup {".", "_", "%", "+", "-"})), Lit(<<"@">>),
          Plus(Chr(Letters \cup Digits \cup {".", "-"})), Lit(<<".">>),
          Rep(Chr(Letters), 2, -1)>>)

DeclinedRe == Words(<<<<"n","o">>, <<"n","o","n","e">>, <<"d","o","n","'","t"," ","h","a","v","e">>, <<"p","r","e","f","e","r"," ","n","o","t">>, <<"s","k","i","p">>>>)

EmailClarification ==
    <<"Could you please provide a valid email address? For example, yourname@example.com">>

validateEmail(response) ==
    With(Search(EmailRe, response), LAMBDA emailMatch :
        IF emailMatch # Null THEN Valid(StrV(Matched(response, Get(emailMatch))))
        ELSE IF Test(DeclinedRe, toLowerCase(response))
        THEN Valid(StrV(<<"declined">>))
        ELSE Invalid(EmailClarification))

\* ------------------------------------------------------------------------
\* The question graph (graph/types.ts)
\* ------------------------------------------------------------------------

ConversationNode ==
    {"start", "initial_interest", "other_property", "price_range",
     "bedrooms_bathrooms", "kitchen_updates", "property_condition", "occupancy",
     "lease_type", "lease_expiry", "selling_reason", "collect_email", "closing",
     "end"}

QUESTIONS ==
    [node \in ConversationNode |->
       CASE node = "initial_interest" ->
              <<"Hi, I'm calling you about the property, just wanted to ask if you've ever considered or had any intention of selling before?">>
         [] node = "other_property" ->
              <<"Alright, do you happen to have any other property you would like to sell?">>
         [] node = "price_range" ->
              <<"Great! May I ask you a few questions about the condition? Let me start by asking you if you have a price range in mind?">>
         [] node = "bedrooms_bathrooms" -> <<"How many bedrooms and bathrooms?">>
         [] node = "kitchen_updates" ->
              <<"Have you made any updates to the kitchen or bathrooms within the past 5 years?">>
         [] node = "property_condition" ->
              <<"On a scale of 1 to 10, how would you rate the condition of your property?">>
         [] node = "occupancy" ->
              <<"Is the property occupied by you or tenants (renters)?">>
         [] node = "lease_type" ->
              <<"May I ask, are they on a monthly lease or an annual lease?">>
         [] node = "lease_expiry" -> <<"When will the lease expire?">>
         [] node = "selling_reason" ->
              <<"What is the main reason for selling this property?">>
         [] node = "collect_email" ->
              <<"What's the best email address to send you more information?">>
         [] node = "closing" ->
              <<"I'd like to thank you for your time and the info. The next step is that one of our acquisition team will call you back to discuss the next step and follow up with you regarding our call within the next two business days. Can we reach you again on this number?">>
         [] OTHER -> <<>>]

ThankYouMessage ==
    <<"Thank you for your time. Our team will be in touch soon. Have a great day!">>

EndedMessage ==
    <<"The conversation has ended. Please start a new conversation.">>

SellingReasonClarification ==
    <<"Could you tell me more about why you're considering selling?">>

\* ------------------------------------------------------------------------
\* Node processors
\* ------------------------------------------------------------------------
\* A processor returns a Partial<GraphState>: a key it does not set is
\* undefined (Null).

NoUpdate ==
    [interestedInSelling |-> Null, hasOtherProperty |-> Null,
     isTenantOccupied |-> Null, isAnnualLease |-> Null, email |-> Null,
     isComplete |-> Null, extractedValue |-> NullV]

Unclear(clarification) ==
    [NoUpdate EXCEPT
       !.extractedValue = ObjV([unclear |-> TRUE, clarification |-> clarification])]

\* a variant with a plausible bug: the flag is not derived from the answer
processInitialInterestUnset(state) ==
    With(validateYesNo(state.lastResponse), LAMBDA validation :
        IF validation.isValid
        THEN [NoUpdate EXCEPT !.extractedValue = validation.extractedValue]
        ELSE Unclear(validation.clarificationNeeded))

processInitialInterest(state) ==
    With(validateYesNo(state.lastResponse), LAMBDA validation :
        IF validation.isValid
        THEN [NoUpdate EXCEPT
                !.interestedInSelling =
                    Some(validation.extractedValue = StrV(<<"yes">>)),
                !.extractedValue = validation.extractedValue]
        ELSE Unclear(validation.clarificationNeeded))

processOtherProperty(state) ==
    With(validateYesNo(state.lastResponse), LAMBDA validation :
        IF validation.isValid
        THEN [NoUpdate EXCEPT
                !.hasOtherProperty =
                    Some(validation.extractedValue = StrV(<<"yes">>)),
                !.extractedValue = validation.extractedValue]
        ELSE Unclear(validation.clarificationNeeded))

\* the shape shared by the processors that only extract a value
Extracted(validation) ==
    IF validation.isValid
    THEN [NoUpdate EXCEPT !.extractedValue = validation.extractedValue]
    ELSE Unclear(validation.clarificationNeeded)

processPriceRange(state) == Extracted(validatePriceRange(state.lastResponse))

processBedroomsBathrooms(state) ==
    Extracted(validateBedroomsBathrooms(state.lastResponse))

\* a variant with a plausible bug: the processor of another yes/no node,
\* which sets that node's flag
processKitchenUpdatesInterested(state) ==
    With(validateYesNo(state.lastResponse), LAMBDA validation :
        IF validation.isValid
        THEN [NoUpdate EXCEPT
                !.interestedInSelling =
                    Some(validation.extractedValue = StrV(<<"yes">>)),
                !.extractedValue = validation.extractedValue]
        ELSE Unclear(validation.clarificationNeeded))

processKitchenUpdates(state) == Extracted(validateYesNo(state.lastResponse))

processPropertyCondition(state) == Extracted(validateScale(state.lastResponse))

\* a variant with a plausible bug: every valid answer counts as occupied
\* by a tenant
processOccupancyOccupied(state) ==
    With(validateOccupancy(state.lastResponse), LAMBDA validation :
        IF validation.isValid
        THEN [NoUpdate EXCEPT !.isTenantOccupied = Some(TRUE),
                              !.extractedValue = validation.extractedValue]
        ELSE Unclear(validation.clarificationNeeded))

processOccupancy(state) ==
    With(validateOccupancy(state.lastResponse), LAMBDA validation :
        IF validation.isValid
        THEN LET isTenant == validation.extractedValue = StrV(<<"tenant">>)
             IN  [NoUpdate EXCEPT !.isTenantOccupied = Some(isTenant),
                                  !.extractedValue = validation.extractedValue]
        ELSE Unclear(validation.clarificationNeeded))

processLeaseType(state) ==
    With(validateLeaseType(state.lastResponse), LAMBDA validation :
        IF validation.isValid
        THEN LET isAnnual == validation.extractedValue = StrV(<<"annual">>)
             IN  [NoUpdate EXCEPT !.isAnnualLease = Some(isAnnual),
                                  !.extractedValue = validation.extractedValue]
        ELSE Unclear(validation.clarificationNeeded))

processLeaseExpiry(state) == Extracted(validateDate(state.lastResponse))

processSellingReason(state) ==
    IF Len(trim(state.lastResponse)) > 2
    THEN [NoUpdate EXCEPT !.extractedValue = StrV(state.lastResponse)]
    ELSE Unclear(SellingReasonClarification)

processEmail(state) ==
    With(validateEmail(state.lastResponse), LAMBDA validation :
        IF validation.isValid
        THEN [NoUpdate EXCEPT !.email = Some(validation.extractedValue.v),
                              !.extractedValue = validation.extractedValue]
        ELSE Unclear(validation.clarificationNeeded))

processClosing(state) ==
    [NoUpdate EXCEPT !.isComplete = Some(TRUE),
                     !.extractedValue = StrV(state.lastResponse)]

processCurrentNode(node, state) ==
    CASE node = "initial_interest" -> processInitialInterest(state)
      [] node = "other_property" -> processOtherProperty(state)
      [] node = "price_range" -> processPriceRange(state)
      [] node = "bedrooms_bathrooms" -> processBedroomsBathrooms(state)
      [] node = "kitchen_updates" -> processKitchenUpdates(state)
      [] node = "property_condition" -> processPropertyCondition(state)
      [] node = "occupancy" -> processOccupancy(state)
      [] node = "lease_type" -> processLeaseType(state)
      [] node = "lease_expiry" -> processLeaseExpiry(state)
      [] node = "selling_reason" -> processSellingReason(state)
      [] node = "collect_email" -> processEmail(state)
      [] node = "closing" -> processClosing(state)
      [] OTHER -> [NoUpdate EXCEPT !.extractedValue = StrV(state.lastResponse)]

\* What a homeowner says at a node: the answers that lead along each edge
\* out of the node, and one that is not understood there.
Replies(node) ==
    CASE node \in {"initial_interest", "other_property"} ->
           {<<"y","e","s">>, <<"n","o">>, <<"m","m","m">>}
      [] node = "price_range" -> {<<"2","5","0","k"," ","t","o"," ","3","0","0","k">>, <<"m","m","m">>}
      [] node = "bedrooms_bathrooms" -> {<<"3"," ","b","e","d"," ","2"," ","b","a","t","h">>, <<"m","m","m">>}
      [] node = "kitchen_updates" -> {<<"n","o","p","e">>, <<"m","m","m">>}
      [] node = "property_condition" -> {<<"7">>, <<"m","m","m">>}
      [] node = "occupancy" -> {<<"t","e","n","a","n","t">>, <<"m","e">>, <<"m","m","m">>}
      [] node = "lease_type" -> {<<"a","n","n","u","a","l">>, <<"m","o","n","t","h","l","y">>, <<"m","m","m">>}
      [] node = "lease_expiry" -> {<<"s","o","o","n">>, <<"n","o">>}
      [] node = "selling_reason" -> {<<"m","o","v","i","n","g">>, <<"n","o">>}
      [] node = "collect_email" -> {<<"a","@","b",".","c","o">>, <<"s","k","i","p">>, <<"m","m","m">>}
      [] OTHER -> {<<"h","i">>, <<"y","e","s">>}

\* processCurrentNode for what homeowners say, computed once
processedReplies ==
    [node \in ConversationNode |->
       [userMessage \in Replies(node) |->
          processCurrentNode(node, [lastResponse |-> userMessage])]]

\* await this.processCurrentNode(state.currentNode, {...state, ...})
processed(node, state) ==
    IF state.lastResponse \in DOMAIN processedReplies[node]
    THEN processedReplies[node][state.lastResponse]
    ELSE processCurrentNode(node, state)

\* extractedValue && typeof extractedValue === 'object' && extractedValue.unclear
IsUnclear(extractedValue) ==
    /\ Truthy(extractedValue)
    /\ extractedValue.type = "object"
    /\ "unclear" \in DOMAIN extractedValue.v
    /\ extractedValue.v.unclear = TRUE

\* ------------------------------------------------------------------------
\* Transition function
\* ------------------------------------------------------------------------

\* a variant with a plausible bug: the branches at occupancy are swapped
determineNextNodeSwapped(currentNode, result) ==
    CASE currentNode = "initial_interest" ->
           IF result.interestedInSelling = Some(TRUE) THEN "price_range"
           ELSE IF result.interestedInSelling = Some(FALSE) THEN "other_property"
           ELSE "initial_interest"
      [] currentNode = "other_property" ->
           IF result.hasOtherProperty = Some(TRUE) THEN "price_range"
           ELSE "closing"
      [] currentNode = "price_range" -> "bedrooms_bathrooms"
      [] currentNode = "bedrooms_bathrooms" -> "kitchen_updates"
      [] currentNode = "kitchen_updates" -> "property_condition"
      [] currentNode = "property_condition" -> "occupancy"
      [] currentNode = "occupancy" ->
           IF result.isTenantOccupied = Some(TRUE) THEN "selling_reason"
           ELSE "lease_type"
      [] currentNode = "lease_type" ->
           IF result.isAnnualLease = Some(TRUE) THEN "lease_expiry"
           ELSE "selling_reason"
      [] currentNode = "lease_expiry" -> "selling_reason"
      [] currentNode = "selling_reason" -> "collect_email"
      [] currentNode = "collect_email" -> "closing"
      [] currentNode = "closing" -> "end"
      [] OTHER -> "end"

\* a variant with a plausible bug: a homeowner with another property is
\* asked the opening question again
determineNextNodeCyclic(currentNode, result) ==
    CASE currentNode = "initial_interest" ->
           IF result.interestedInSelling = Some(TRUE) THEN "price_range"
           ELSE IF result.interestedInSelling = Some(FALSE) THEN "other_property"
           ELSE "initial_interest"
      [] currentNode = "other_property" ->
           IF result.hasOtherProperty = Some(TRUE) THEN "initial_interest"
           ELSE "closing"
      [] currentNode = "price_range" -> "bedrooms_bathrooms"
      [] currentNode = "bedrooms_bathrooms" -> "kitchen_updates"
      [] currentNode = "kitchen_updates" -> "property_condition"
      [] currentNode = "property_condition" -> "occupancy"
      [] currentNode = "occupancy" ->
           IF result.isTenantOccupied = Some(TRUE) THEN "lease_type"
           ELSE "selling_reason"
      [] currentNode = "lease_type" ->
           IF result.isAnnualLease = Some(TRUE) THEN "lease_expiry"
           ELSE "selling_reason"
      [] currentNode = "lease_expiry" -> "selling_reason"
      [] currentNode = "selling_reason" -> "collect_email"
      [] currentNode = "collect_email" -> "closing"
      [] currentNode = "closing" -> "end"
      [] OTHER -> "end"

determineNextNode(currentNode, result) ==
    CASE currentNode = "initial_interest" ->
           IF result.interestedInSelling = Some(TRUE) THEN "price_range"
           ELSE IF result.interestedInSelling = Some(FALSE) THEN "other_property"
           ELSE "initial_interest"
      [] currentNode = "other_property" ->
           IF result.hasOtherProperty = Some(TRUE) THEN "price_range"
           ELSE "closing"
      [] currentNode = "price_range" -> "bedrooms_bathrooms"
      [] currentNode = "bedrooms_bathrooms" -> "kitchen_updates"
      [] currentNode = "kitchen_updates" -> "property_condition"
      [] currentNode = "property_condition" -> "occupancy"
      [] currentNode = "occupancy" ->
           IF result.isTenantOccupied = Some(TRUE) THEN "lease_type"
           ELSE "selling_reason"
      [] currentNode = "lease_type" ->
           IF result.isAnnualLease = Some(TRUE) THEN "lease_expiry"
           ELSE "selling_reason"
      [] currentNode = "lease_expiry" -> "selling_reason"
      [] currentNode = "selling_reason" -> "collect_email"
      [] currentNode = "collect_email" -> "closing"
      [] currentNode = "closing" -> "end"
      [] OTHER -> "end"

\* ------------------------------------------------------------------------
\* The completion backend (this.llm.invoke)
\* ------------------------------------------------------------------------
\* An invocation throws ("error"), answers with empty content ("empty") or
\* answers with a text ("text"), kept as an opaque text that records the
\* request it answers.

LLMOutcomes == {"error", "empty", "text"}

llmInvoke(outcome, request) ==
    CASE outcome = "error" -> Null
      [] outcome = "empty" -> Some(<<>>)
      [] OTHER -> Some(<<"LLM:">> \o request)

formatClarification(state, clarification, outcome) ==
    With(llmInvoke(outcome, clarification), LAMBDA response :
        IF response = Null THEN clarification
        ELSE IF trim(Get(response)) # <<>> THEN trim(Get(response))
        ELSE clarification)

\* a variant with a plausible bug: a request that fails gives no text
formatQuestionSilent(state, question, outcome) ==
    IF question = <<>> THEN <<>>
    ELSE With(llmInvoke(outcome, question), LAMBDA response :
             IF response = Null THEN <<>>
             ELSE IF trim(Get(response)) # <<>> THEN trim(Get(response))
             ELSE question)

formatQuestion(state, question, outcome) ==
    IF question = <<>> THEN <<>>
    ELSE With(llmInvoke(outcome, question), LAMBDA response :
             IF response = Null THEN question
             ELSE IF trim(Get(response)) # <<>> THEN trim(Get(response))
             ELSE question)

\* ------------------------------------------------------------------------
\* LogsStorage: graph state files and graph log files
\* ------------------------------------------------------------------------
\* A store is [files, logs, clock, broken]: the graph-state directory (file
\* name -> content), the log directory (log path -> lines written so far),
\* the latest time stamp handed out by new Date(), and the appends to the
\* log ("log" for a turn, "summary") that fail at present.  The content of
\* a state file is kept as the JSON value its text denotes, or is
\* Unparsable.

MaxUsernameLength == 64

Min(a, b) == IF a <= b THEN a ELSE b

EmptyMap == [k \in {} |-> {}]

Put(map, key, value) ==
    [k \in DOMAIN map \cup {key} |-> IF k = key THEN value ELSE map[k]]

Remove(map, key) == [k \in DOMAIN map \ {key} |-> map[k]]

\* [a-zA-Z0-9._-]
SafeChars == Letters \cup Digits \cup {".", "_", "-"}

\* a variant with a plausible bug: the length is not capped
sanitizeUsernameUncapped(username) ==
    With(trim(username), LAMBDA v :
        IF v = <<>> THEN <<"a","n","o","n","y","m","o","u","s">>
        ELSE [i \in 1..Len(v) |-> IF v[i] \in SafeChars THEN v[i] ELSE "_"])

sanitizeUsername(username) ==
    With(trim(username), LAMBDA v :
        IF v = <<>> THEN <<"a","n","o","n","y","m","o","u","s">>
        ELSE SubSeq([i \in 1..Len(v) |-> IF v[i] \in SafeChars THEN v[i] ELSE "_"],
                    1, Min(Len(v), MaxUsernameLength)))

\* a variant with a plausible bug: one state file for every username
getGraphStatePathShared(username) == <<"s","t","a","t","e">>

\* the file name of a graph state file, without directory and ".json"
getGraphStatePath(username) == sanitizeUsername(username)

\* graph.<sanitized>.<time stamp>.log
getGraphLogPath(username, now) == [name |-> sanitizeUsername(username), ts |-> now]

\* a text that is not JSON
Unparsable == [text |-> "not JSON"]

\* the fields of the extracted objects that hold number | null
NumberFields == {"min", "max", "bedrooms", "bathrooms"}

\* JSON.stringify of a number | null: a number that is not finite is
\* written as null
jsonNumber(x) == IF x.type = "number" /\ ~IsFinite(x.v) THEN NullV ELSE x

\* JSON.stringify of an extracted value
jsonValue(x) ==
    IF x.type = "object"
    THEN ObjV([k \in DOMAIN x.v |->
                 IF k \in NumberFields THEN jsonNumber(x.v[k]) ELSE x.v[k]])
    ELSE jsonNumber(x)

\* JSON.stringify(stateToSave, null, 2): strings, booleans, null and finite
\* numbers are written as they are (no field of a state is undefined)
stringify(stateToSave) ==
    [stateToSave EXCEPT
       !.extractedAnswers = [node \in DOMAIN @ |-> jsonValue(@[node])]]

\* JSON.parse(raw): the value, or an exception (Null here) for a text that
\* is not JSON
parse(raw) == IF raw = Unparsable THEN Null ELSE Some(raw)

\* a missing file, or an exception of readFileSync or JSON.parse: null
loadGraphState(store, username) ==
    With(getGraphStatePath(username), LAMBDA statePath :
        IF statePath \notin DOMAIN store.files THEN Null
        ELSE parse(store.files[statePath]))

\* does the call read the clock (make a new log path)?
createsGraphLogPath(store, username) ==
    With(loadGraphState(store, username), LAMBDA state :
        ~(state # Null /\ "logPath" \in DOMAIN Get(state)))

getOrCreateGraphLogPath(store, username, now) ==
    IF createsGraphLogPath(store, username)
    THEN getGraphLogPath(username, now)
    ELSE Get(loadGraphState(store, username)).logPath

\* the store after new Date() was read for a log path
Tick(store, username, now) ==
    IF createsGraphLogPath(store, username) THEN [store EXCEPT !.clock = now]
    ELSE store

\* { ...state, logPath }
WithLogPath(state, logPath) ==
    [username |-> state.username, currentNode |-> state.currentNode,
     messages |-> state.messages, answers |-> state.answers,
     extractedAnswers |-> state.extractedAnswers,
     interestedInSelling |-> state.interestedInSelling,
     hasOtherProperty |-> state.hasOtherProperty,
     isTenantOccupied |-> state.isTenantOccupied,
     isAnnualLease |-> state.isAnnualLease, email |-> state.email,
     isComplete |-> state.isComplete, lastQuestion |-> state.lastQuestion,
     lastResponse |-> state.lastResponse, logPath |-> logPath]

\* a variant with a plausible bug: the state is written as it is, without
\* the log path
saveGraphStatePlain(store, state, now) ==
    [Tick(store, state.username, now) EXCEPT
       !.files = Put(store.files, getGraphStatePath(state.username),
                     stringify(state))]

\* the file is written (the caller has checked that the write succeeds)
saveGraphState(store, state, now) ==
    LET statePath   == getGraphStatePath(state.username)
        stateToSave == WithLogPath(state,
                          getOrCreateGraphLogPath(store, state.username, now))
    IN  [Tick(store, state.username, now) EXCEPT
           !.files = Put(store.files, statePath, stringify(stateToSave))]

clearGraphState(store, username) ==
    With(getGraphStatePath(username), LAMBDA statePath :
        IF statePath \in DOMAIN store.files
        THEN [store EXCEPT !.files = Remove(store.files, statePath)]
        ELSE store)

\* fs.appendFileSync
appendFile(logs, logPath, line) ==
    Put(logs, logPath,
        (IF logPath \in DOMAIN logs THEN logs[logPath] ELSE <<>>) \o <<line>>)

\* try { fs.appendFileSync(logPath, line) } catch { console.error(...) }
tryAppend(store, record, logPath, line) ==
    IF record \in store.broken THEN store
    ELSE [store EXCEPT !.logs = appendFile(store.logs, logPath, line)]

\* a variant with a plausible bug: the line names the node the turn
\* advances to as the node answered
appendGraphLogAdvanced(store, username, node, question, userResponse, extractedValue, nextNode, aiResponse, now) ==
    LET logPath == getOrCreateGraphLogPath(store, username, now)
        logLine == [kind |-> "turn", node |-> nextNode, question |-> question,
                    userResponse |-> userResponse,
                    extractedValue |-> extractedValue, nextNode |-> nextNode,
                    aiResponse |-> aiResponse]
    IN  tryAppend(Tick(store, username, now), "log", logPath, logLine)

\* One line of the graph log (its time stamp text is not kept).
appendGraphLog(store, username, node, question, userResponse, extractedValue, nextNode, aiResponse, now) ==
    LET logPath == getOrCreateGraphLogPath(store, username, now)
        logLine == [kind |-> "turn", node |-> node, question |-> question,
                    userResponse |-> userResponse,
                    extractedValue |-> extractedValue, nextNode |-> nextNode,
                    aiResponse |-> aiResponse]
    IN  tryAppend(Tick(store, username, now), "log", logPath, logLine)

appendGraphSummary(store, username, state, now) ==
    LET logPath == getOrCreateGraphLogPath(store, username, now)
        summaryLog == [kind |-> "summary", username |-> username,
                       isComplete |-> state.isComplete, answers |-> state.answers,
                       extractedAnswers |-> state.extractedAnswers,
                       interestedInSelling |-> state.interestedInSelling,
                       hasOtherProperty |-> state.hasOtherProperty,
                       isTenantOccupied |-> state.isTenantOccupied,
                       isAnnualLease |-> state.isAnnualLease,
                       email |-> state.email]
    IN  tryAppend(Tick(store, username, now), "summary", logPath, summaryLog)

\* ------------------------------------------------------------------------
\* GraphService.chat
\* ------------------------------------------------------------------------
\* A world is [activeStates, store].  A call returns [world, threw, text]:
\* the world it leaves, whether an exception reaches the caller, and the
\* text it returns otherwise.  The objects held by activeStates are
\* mutated in place, so every change of `state` is a change of the map.
\* The inputs of a call besides its arguments: the outcome of the
\* completion request, the behaviour of fs.writeFileSync during the call
\* (writes: "ok", "fail" for every write failing, "retry" for the first
\* write failing and a later one succeeding), and the time.

Returned(world, text) == [world |-> world, threw |-> FALSE, text |-> text]

Thrown(world) == [world |-> world, threw |-> TRUE, text |-> <<>>]

Message(role, content) == [role |-> role, content |-> content]

Cache(world, username, state) ==
    [world EXCEPT !.activeStates = Put(world.activeStates, username, state)]

lastMessage(state) == state.messages[Len(state.messages)].content

\* this.activeStates.set(username, state); this.storage.saveGraphState(state);
\* return text
saveAndReturn(world, username, state, text, writeOk, now) ==
    LET cached == Cache(world, username, state)
    IN  IF writeOk
        THEN Returned([cached EXCEPT !.store = saveGraphState(cached.store, state, now)],
                      text)
        ELSE Thrown(cached)

\* a variant with a plausible bug: the first message is taken as an answer
initialStateAnswered(username) ==
    [username |-> username, currentNode |-> "initial_interest",
     messages |-> <<Message("ai", QUESTIONS["initial_interest"])>>,
     answers |-> [initial_interest |-> <<>>], extractedAnswers |-> EmptyMap,
     interestedInSelling |-> Null, hasOtherProperty |-> Null,
     isTenantOccupied |-> Null, isAnnualLease |-> Null, email |-> Null,
     isComplete |-> FALSE, lastQuestion |-> QUESTIONS["initial_interest"],
     lastResponse |-> <<>>]

initialState(username) ==
    [username |-> username, currentNode |-> "initial_interest",
     messages |-> <<Message("ai", QUESTIONS["initial_interest"])>>,
     answers |-> EmptyMap, extractedAnswers |-> EmptyMap,
     interestedInSelling |-> Null, hasOtherProperty |-> Null,
     isTenantOccupied |-> Null, isAnnualLease |-> Null, email |-> Null,
     isComplete |-> FALSE, lastQuestion |-> QUESTIONS["initial_interest"],
     lastResponse |-> <<>>]

\* a variant with a plausible bug: the closing text is sent and the
\* conversation is not marked complete
enterNodeUnfinished(state, nextNode, outcome) ==
    IF nextNode = "end" \/ nextNode = "closing"
    THEN [state EXCEPT !.messages = Append(@, Message("ai", ThankYouMessage)),
                       !.lastQuestion = ThankYouMessage]
    ELSE [state EXCEPT
            !.messages = Append(@, Message("ai",
                            formatQuestion(state, QUESTIONS[nextNode], outcome))),
            !.lastQuestion = QUESTIONS[nextNode]]

\* a variant with a plausible bug: the closing node is asked and answered
\* like any other node, and only the end node closes the conversation
enterNodeAsking(state, nextNode, outcome) ==
    IF nextNode = "end"
    THEN [state EXCEPT !.isComplete = TRUE,
                       !.messages = Append(@, Message("ai", ThankYouMessage)),
                       !.lastQuestion = ThankYouMessage]
    ELSE [state EXCEPT
            !.messages = Append(@, Message("ai",
                            formatQuestion(state, QUESTIONS[nextNode], outcome))),
            !.lastQuestion = QUESTIONS[nextNode]]

\* the state after nextNode has become the current node: the conversation
\* is closed, or the next question is asked
enterNode(state, nextNode, outcome) ==
    IF nextNode = "end" \/ nextNode = "closing"
    THEN [state EXCEPT !.isComplete = TRUE,
                       !.messages = Append(@, Message("ai", ThankYouMessage)),
                       !.lastQuestion = ThankYouMessage]
    ELSE LET nextQuestion == QUESTIONS[nextNode]
         IN  IF nextQuestion # <<>>
             THEN [state EXCEPT
                     !.messages = Append(@, Message("ai",
                                     formatQuestion(state, nextQuestion, outcome))),
                     !.lastQuestion = nextQuestion]
             ELSE [state EXCEPT
                     !.isComplete = TRUE,
                     !.messages = Append(@, Message("ai", ThankYouMessage))]

\* the summary is logged when the conversation was closed
logConversationSummary(store, username, state, now) ==
    IF state.isComplete THEN appendGraphSummary(store, username, state, now)
    ELSE store

\* the question of the node reached, or the closing text
fallbackReply(state, nextNode) ==
    IF nextNode = "end" \/ nextNode = "closing"
    THEN [state EXCEPT !.isComplete = TRUE,
                       !.messages = Append(@, Message("ai", ThankYouMessage))]
    ELSE IF QUESTIONS[nextNode] # <<>>
    THEN [state EXCEPT
            !.messages = Append(@, Message("ai", QUESTIONS[nextNode])),
            !.lastQuestion = QUESTIONS[nextNode]]
    ELSE [state EXCEPT !.isComplete = TRUE,
                       !.messages = Append(@, Message("ai", ThankYouMessage))]

\* a variant with a plausible bug: the question last asked is returned
processFallbackStale(world, username, state, userMessage, writes, now) ==
    With(determineNextNode(state.currentNode, state), LAMBDA nextNode :
    With(fallbackReply([state EXCEPT
                          !.answers = Put(@, state.currentNode, userMessage),
                          !.currentNode = nextNode],
                       nextNode),
         LAMBDA final :
        saveAndReturn(world, username, final, final.lastQuestion,
                      writes # "fail", now)))

processFallback(world, username, state, userMessage, writes, now) ==
    With(determineNextNode(state.currentNode, state), LAMBDA nextNode :
    With(fallbackReply([state EXCEPT
                          !.answers = Put(@, state.currentNode, userMessage),
                          !.currentNode = nextNode],
                       nextNode),
         LAMBDA final :
        saveAndReturn(world, username, final, lastMessage(final),
                      writes # "fail", now)))

\* a variant with a plausible bug: a log record that could not be written
\* is an exception of the turn, which the fallback processes again
orFallbackAudited(result, username, state, userMessage, writes, now) ==
    IF result.threw \/ result.world.store.broken # {}
    THEN processFallback(result.world, username, state, userMessage, writes, now)
    ELSE result

\* catch (error) { return this.processFallback(username, state, userMessage) }
\* around a write that may have thrown
orFallback(result, username, state, userMessage, writes, now) ==
    IF result.threw
    THEN processFallback(result.world, username, state, userMessage, writes, now)
    ELSE result

\* a || b for a flag
Or(a, b) == IF a # Null /\ Get(a) # FALSE THEN a ELSE b

\* a variant with a plausible bug: || in place of ??, which loses false
mergeFlagsOr(state, processorResult) ==
    [state EXCEPT
       !.interestedInSelling = Or(processorResult.interestedInSelling, @),
       !.hasOtherProperty = Or(processorResult.hasOtherProperty, @),
       !.isTenantOccupied = Or(processorResult.isTenantOccupied, @),
       !.isAnnualLease = Or(processorResult.isAnnualLease, @),
       !.email = Coalesce(processorResult.email, @)]

\* processorResult.flag ?? state.flag, for the five derived flags
mergeFlags(state, processorResult) ==
    [state EXCEPT
       !.interestedInSelling = Coalesce(processorResult.interestedInSelling, @),
       !.hasOtherProperty = Coalesce(processorResult.hasOtherProperty, @),
       !.isTenantOccupied = Coalesce(processorResult.isTenantOccupied, @),
       !.isAnnualLease = Coalesce(processorResult.isAnnualLease, @),
       !.email = Coalesce(processorResult.email, @)]

\* a variant with a plausible bug: the unclear answer is recorded as the
\* answer of the node
clarifyRecording(world, username, state, userMessage, extractedValue, outcome, writes, now) ==
    saveAndReturn(world, username,
                  [state EXCEPT
                     !.answers = Put(@, state.currentNode, userMessage),
                     !.messages = Append(@, Message("ai",
                                     extractedValue.v.clarification))],
                  extractedValue.v.clarification, TRUE, now)

\* a variant with a plausible bug: a retry limit, after two unclear answers
\* the third is recorded and the conversation moves on
clarifyLimited(world, username, state, userMessage, extractedValue, outcome, writes, now) ==
    IF Cardinality({i \in 1..Len(state.messages) : state.messages[i].role = "human"})
          - Cardinality(DOMAIN state.answers) > 2
    THEN processFallback(world, username, state, userMessage, writes, now)
    ELSE With(formatClarification(state,
                  IF extractedValue.v.clarification # <<>>
                  THEN extractedValue.v.clarification
                  ELSE QUESTIONS[state.currentNode],
                  outcome),
              LAMBDA clarificationMessage :
             saveAndReturn(
                 [world EXCEPT
                    !.store = appendGraphLog(@, username, state.currentNode,
                                 QUESTIONS[state.currentNode], userMessage,
                                 ObjV([unclear |-> TRUE,
                                       originalResponse |-> userMessage,
                                       clarification |->
                                           extractedValue.v.clarification]),
                                 state.currentNode, clarificationMessage, now)],
                 username,
                 [state EXCEPT
                    !.messages = Append(@, Message("ai", clarificationMessage))],
                 clarificationMessage, TRUE, now))

\* the branch of an unclear answer: re-ask, the node stays
clarify(world, username, state, userMessage, extractedValue, outcome, writes, now) ==
    With(formatClarification(state,
             IF extractedValue.v.clarification # <<>>
             THEN extractedValue.v.clarification
             ELSE QUESTIONS[state.currentNode],
             outcome),
         LAMBDA clarificationMessage :
    With([state EXCEPT
            !.messages = Append(@, Message("ai", clarificationMessage))],
         LAMBDA asked :
        orFallback(
            saveAndReturn(
                [world EXCEPT
                   !.store = appendGraphLog(@, username, state.currentNode,
                                QUESTIONS[state.currentNode], userMessage,
                                ObjV([unclear |-> TRUE,
                                      originalResponse |-> userMessage,
                                      clarification |->
                                          extractedValue.v.clarification]),
                                state.currentNode, clarificationMessage, now)],
                username, asked, clarificationMessage, writes = "ok", now),
            username, asked, userMessage, writes, now)))

\* a variant with a plausible bug: the answer is recorded under the node
\* the turn advances to
advanceRecordingNext(world, username, state, userMessage, processorResult, outcome, writes, now) ==
    With(mergeFlags(state, processorResult), LAMBDA updatedState :
    With(determineNextNode(state.currentNode, updatedState), LAMBDA nextNode :
    With(enterNode([updatedState EXCEPT
                      !.answers = Put(@, nextNode, userMessage),
                      !.extractedAnswers =
                          Put(@, nextNode, processorResult.extractedValue),
                      !.currentNode = nextNode],
                   nextNode, outcome),
         LAMBDA entered :
        orFallback(
            saveAndReturn(
                [world EXCEPT
                   !.store = appendGraphLog(
                                logConversationSummary(@, username, entered, now),
                                username, state.currentNode,
                                QUESTIONS[state.currentNode], userMessage,
                                processorResult.extractedValue, nextNode,
                                lastMessage(entered), now)],
                username, entered, lastMessage(entered), writes = "ok", now),
            username, entered, userMessage, writes, now))))

\* the branch of a valid answer: record it and move to the next node
advance(world, username, state, userMessage, processorResult, outcome, writes, now) ==
    With(mergeFlags(state, processorResult), LAMBDA updatedState :
    With(determineNextNode(state.currentNode, updatedState), LAMBDA nextNode :
    With(enterNode([updatedState EXCEPT
                      !.answers = Put(@, state.currentNode, userMessage),
                      !.extractedAnswers =
                          Put(@, state.currentNode, processorResult.extractedValue),
                      !.currentNode = nextNode],
                   nextNode, outcome),
         LAMBDA entered :
        orFallback(
            saveAndReturn(
                [world EXCEPT
                   !.store = appendGraphLog(
                                logConversationSummary(@, username, entered, now),
                                username, state.currentNode,
                                QUESTIONS[state.currentNode], userMessage,
                                processorResult.extractedValue, nextNode,
                                lastMessage(entered), now)],
                username, entered, lastMessage(entered), writes = "ok", now),
            username, entered, userMessage, writes, now))))

\* a variant with a plausible bug: only the last message of the transcript
\* is kept when a message is processed
answerTrimmed(world, username, state, userMessage, outcome, writes, now) ==
    With(processed(state.currentNode, state), LAMBDA processorResult :
    With([state EXCEPT !.messages = <<@[Len(@)]>>], LAMBDA trimmed :
        IF IsUnclear(processorResult.extractedValue)
        THEN clarify(Cache(world, username, trimmed), username, trimmed, userMessage,
                     processorResult.extractedValue, outcome, writes, now)
        ELSE advance(Cache(world, username, trimmed), username, trimmed, userMessage,
                     processorResult, outcome, writes, now)))

\* the turn of a conversation that goes on: the message is heard (pushed,
\* kept as lastResponse) and the current node processes it
answer(world, username, state, userMessage, outcome, writes, now) ==
    With(processed(state.currentNode, state), LAMBDA processorResult :
        IF IsUnclear(processorResult.extractedValue)
        THEN clarify(Cache(world, username, state), username, state, userMessage,
                     processorResult.extractedValue, outcome, writes, now)
        ELSE advance(Cache(world, username, state), username, state, userMessage,
                     processorResult, outcome, writes, now))

\* a variant with a plausible bug: a complete conversation is thanked again
conversationEndedThanks(world) == Returned(world, ThankYouMessage)

\* if (state.isComplete) return "The conversation has ended. ..."
conversationEnded(world) == Returned(world, EndedMessage)

\* the object read from a file may lack fields of a GraphState
Has(state, field) == field \in DOMAIN state

\* if (state.field), undefined being falsy
IsSet(state, field) == Has(state, field) /\ state[field]

\* this.activeStates.get(username), else the file, which is then cached
lookup(world, username) ==
    IF username \in DOMAIN world.activeStates
    THEN Some(world.activeStates[username])
    ELSE loadGraphState(world.store, username)

\* (state.messages.push of an object without messages is a TypeError, and
\* it is raised before the try block)
chat(world, username, userMessage, outcome, writes, now) ==
    With(lookup(world, username), LAMBDA found :
        IF found = Null
        THEN saveAndReturn(world, username, initialState(username),
                           QUESTIONS["initial_interest"], writes = "ok", now)
        ELSE IF IsSet(Get(found), "isComplete")
        THEN conversationEnded(Cache(world, username, Get(found)))
        ELSE IF ~Has(Get(found), "messages")
        THEN Thrown(Cache(world, username, Get(found)))
        ELSE answer(Cache(world, username, Get(found)), username,
                    [Get(found) EXCEPT
                       !.messages = Append(@, Message("human", userMessage)),
                       !.lastResponse = userMessage],
                    userMessage, outcome, writes, now))

\* a variant with a plausible bug: the file is not removed
resetConversationCacheOnly(world, username) ==
    [world EXCEPT !.activeStates = Remove(@, username)]

resetConversation(world, username) ==
    [world EXCEPT !.activeStates = Remove(@, username),
                  !.store = clearGraphState(@, username)]

getConversationState(world, username) ==
    IF username \in DOMAIN world.activeStates
    THEN Some(world.activeStates[username])
    ELSE loadGraphState(world.store, username)


\* ------------------------------------------------------------------------
\* GraphService.chat, suspended at its awaits
\* ------------------------------------------------------------------------
\* chat is async: it runs to an await and goes on when the awaited promise
\* has settled, and other calls may run in between.  A suspended call is a
\* record: the arguments, where it waits (at), and its local constants
\* (processorResult, the clarification it asks to reword, previousNode,
\* nextNode).  `state` is the object held by activeStates for the
\* username: whatever another call did to it meanwhile is seen.

\* the call has returned
Done(result) == [done |-> TRUE, result |-> result]

\* the call waits
Waiting(world, at, processorResult, request, previousNode, nextNode) ==
    [done |-> FALSE, world |-> world, at |-> at,
     processorResult |-> processorResult, request |-> request,
     previousNode |-> previousNode, nextNode |-> nextNode]

\* state.messages.push({ role: "human", ... }); state.lastResponse = ...
hear(state, userMessage) ==
    [state EXCEPT !.messages = Append(@, Message("human", userMessage)),
                  !.lastResponse = userMessage]

\* from the call to `await this.processCurrentNode(...)`: the processor has
\* run on a copy of the state as it is now
begin(world, username, userMessage, now) ==
    With(lookup(world, username), LAMBDA found :
        IF found = Null \/ IsSet(Get(found), "isComplete")
                        \/ ~Has(Get(found), "messages")
        THEN Done(chat(world, username, userMessage, "error", "ok", now))
        ELSE Waiting(Cache(world, username, hear(Get(found), userMessage)),
                     "processing",
                     processed(Get(found).currentNode,
                               hear(Get(found), userMessage)),
                     <<>>, Get(found).currentNode, Get(found).currentNode))

\* const previousNode = state.currentNode, read after the await
nodeRecorded(state, turn) == state.currentNode

\* from the result of the processor to the next await: the request to
\* reword the clarification, or the answer recorded and the node advanced
\* and -- unless the conversation is closed, which needs no await -- the
\* request to reword the next question
resume(world, username, turn, now) ==
    With(world.activeStates[username], LAMBDA state :
        IF IsUnclear(turn.processorResult.extractedValue)
        THEN Waiting(world, "clarifying", turn.processorResult,
                     IF turn.processorResult.extractedValue.v.clarification # <<>>
                     THEN turn.processorResult.extractedValue.v.clarification
                     ELSE QUESTIONS[state.currentNode],
                     state.currentNode, state.currentNode)
        ELSE With(determineNextNode(state.currentNode,
                                    mergeFlags(state, turn.processorResult)),
                  LAMBDA nextNode :
                 IF nextNode \in {"end", "closing"} \/ QUESTIONS[nextNode] = <<>>
                 THEN Done(advance(world, username, state, turn.userMessage,
                                   turn.processorResult, "error", "ok", now))
                 ELSE Waiting(
                          Cache(world, username,
                                [mergeFlags(state, turn.processorResult) EXCEPT
                                   !.answers = Put(@, nodeRecorded(state, turn),
                                                   turn.userMessage),
                                   !.extractedAnswers =
                                       Put(@, nodeRecorded(state, turn),
                                           turn.processorResult.extractedValue),
                                   !.currentNode = nextNode]),
                          "asking", turn.processorResult, QUESTIONS[nextNode],
                          nodeRecorded(state, turn), nextNode)))

\* after await this.formatClarification(...): log, push, cache, save
reask(world, username, turn, state, clarificationMessage, now) ==
    saveAndReturn(
        [world EXCEPT
           !.store = appendGraphLog(@, username, state.currentNode,
                        QUESTIONS[state.currentNode], turn.userMessage,
                        ObjV([unclear |-> TRUE,
                              originalResponse |-> turn.userMessage,
                              clarification |->
                                  turn.processorResult.extractedValue.v.clarification]),
                        state.currentNode, clarificationMessage, now)],
        username,
        [state EXCEPT !.messages = Append(@, Message("ai", clarificationMessage))],
        clarificationMessage, TRUE, now)

\* after await this.formatQuestion(...): push, log, cache, save
ask(world, username, turn, state, aiResponseMessage, now) ==
    saveAndReturn(
        [world EXCEPT
           !.store = appendGraphLog(@, username, turn.previousNode,
                        QUESTIONS[turn.previousNode], turn.userMessage,
                        turn.processorResult.extractedValue, turn.nextNode,
                        aiResponseMessage, now)],
        username,
        [state EXCEPT !.messages = Append(@, Message("ai", aiResponseMessage)),
                      !.lastQuestion = turn.request],
        aiResponseMessage, TRUE, now)

\* from the completion request's outcome to the return
finish(world, username, turn, outcome, now) ==
    IF turn.at = "clarifying"
    THEN reask(world, username, turn, world.activeStates[username],
               formatClarification(world.activeStates[username], turn.request,
                                   outcome),
               now)
    ELSE ask(world, username, turn, world.activeStates[username],
             formatQuestion(world.activeStates[username], turn.request, outcome),
             now)
\* ------------------------------------------------------------------------
\* The service as a state machine
\* ------------------------------------------------------------------------
\* activeStates    GraphService.activeStates (raw username -> state)
\* graphStateFiles the directory of graph state files (file name -> content)
\* logFiles        the graph log files (log path -> lines)
\* clock           the latest time stamp handed out for a log path
\* ret             the last call and what it returned
\* pending         the chat calls that have not returned yet (and, until
\*                 the next calls begin, those that ran at the same time)

VARIABLES activeStates, graphStateFiles, logFiles, clock, ret, pending

vars == <<activeStates, graphStateFiles, logFiles, clock, ret, pending>>

\* (every append to a log succeeds unless a call is given a store in which
\* some fail)
World ==
    [activeStates |-> activeStates,
     store |-> [files |-> graphStateFiles, logs |-> logFiles, clock |-> clock,
                broken |-> {}]]

Becomes(world) ==
    /\ activeStates' = world.activeStates
    /\ graphStateFiles' = world.store.files
    /\ logFiles' = world.store.logs
    /\ clock' = world.store.clock

Call(op, username, userMessage, threw, text, state) ==
    [op |-> op, username |-> username, userMessage |-> userMessage,
     threw |-> threw, text |-> text, state |-> state]

\* -- the environment ------------------------------------------------------

\* unclear answers a homeowner gives in one conversation
MaxUnclear == 1

\* requests of one conversation the completion backend answers with a
\* text before it stops answering
MaxParaphrase == 1

\* the latest time stamp: the conversations begun, one after another
MaxClock == 2

\* messages of a conversation begun after a reset
MaxLaterMessages == 3

\* a raw username whose file name differs from it, and the raw username
\* that is this file name
Usernames == {<<"a"," ","b">>}

AliasUsernames == {<<"a"," ","b">>, <<"a","_","b">>}

\* messages of a conversation when two usernames share a file
MaxAliasMessages == 3

\* the node at which chat(username, ...) will find the conversation
NodeOf(world, username) ==
    With(getConversationState(world, username), LAMBDA found :
        IF found = Null \/ ~Has(Get(found), "currentNode") THEN "start"
        ELSE IF Get(found).isComplete THEN "start"
        ELSE Get(found).currentNode)

\* the messages of a role
Spoken(messages, role) ==
    Cardinality({i \in 1..Len(messages) : messages[i].role = role})

IsParaphrase(message) ==
    /\ message.role = "ai"
    /\ message.content # <<>>
    /\ message.content[1] = "LLM:"

\* the human messages that were not taken as an answer
UnclearTurns(state) ==
    Spoken(state.messages, "human") - Cardinality(DOMAIN state.answers)

\* the rephrased messages are among the first replies of the conversation
\* (its first message is the literal opening question)
Paraphrases(state) ==
    \A i \in 1..Len(state.messages) :
        IsParaphrase(state.messages[i])
            => Spoken(SubSeq(state.messages, 1, i), "ai") <= MaxParaphrase + 1

\* the states a world holds, cached or in a file
StatesOf(world) ==
    {world.activeStates[u] : u \in DOMAIN world.activeStates}
        \cup {world.store.files[f] : f \in DOMAIN world.store.files}

Bounded(state) == UnclearTurns(state) <= MaxUnclear /\ Paraphrases(state)

WithinBounds(world) ==
    /\ \A state \in StatesOf(world) : Bounded(state)
    /\ world.store.clock > 1
          => \A state \in StatesOf(world) : Len(state.messages) <= MaxLaterMessages

WithinAliasBounds(world) ==
    \A state \in StatesOf(world) :
        Bounded(state) /\ Len(state.messages) <= MaxAliasMessages

\* messages of a conversation in which writes may fail
MaxFaultMessages == 6

\* records of a log when turns are logged whose state is not saved
MaxFaultRecords == 3

WithinFaultBounds(world) ==
    /\ \A state \in StatesOf(world) :
          Bounded(state) /\ Len(state.messages) <= MaxFaultMessages
    /\ \A logPath \in DOMAIN world.store.logs :
          Len(world.store.logs[logPath]) <= MaxFaultRecords
    /\ world.store.clock > 1
          => \A state \in StatesOf(world) : Len(state.messages) <= MaxLaterMessages

\* two homeowners: usernames with different file names
PairUsernames == {<<"a"," ","b">>, <<"c">>}

\* messages of a conversation when two homeowners talk in turn
MaxPairMessages == 3

WithinPairBounds(world) ==
    \A state \in StatesOf(world) :
        Bounded(state) /\ Len(state.messages) <= MaxPairMessages

\* chat calls for one username that run at the same time
MaxOverlap == 2

\* messages of a conversation in which chat calls run at the same time
MaxOverlapMessages == 5

WithinOverlapBounds(world) ==
    \A state \in StatesOf(world) :
        Paraphrases(state) /\ Len(state.messages) <= MaxOverlapMessages

\* unclear answers of a conversation in which answers are asked for again
\* and again
MaxLoopUnclear == 3

\* messages of such a conversation
MaxLoopMessages == 11

WithinLoopBounds(world) ==
    \A state \in StatesOf(world) :
        /\ UnclearTurns(state) <= MaxLoopUnclear
        /\ Paraphrases(state)
        /\ Len(state.messages) <= MaxLoopMessages

\* messages of a conversation in which a price range is given
MaxPriceMessages == 7

WithinPriceBounds(world) ==
    \A state \in StatesOf(world) :
        Bounded(state) /\ Len(state.messages) <= MaxPriceMessages

\* price ranges "<A><suffix> (-|to|and) <B><suffix>" with the values of A
\* and B
RangeAnswers ==
    {[text |-> <<"2","5","0","k"," ","t","o"," ","3","0","0","k">>, min |-> 250000, max |-> 300000],
     [text |-> <<"a","r","o","u","n","d"," ","2","5","0","k"," ","t","o"," ","3","0","0","k">>, min |-> 250000, max |-> 300000],
     [text |-> <<"$","2","0","0","k","-","$","3","0","0","k">>, min |-> 200000, max |-> 300000],
     [text |-> <<"1","m"," ","a","n","d"," ","2","m">>, min |-> 1000000, max |-> 2000000]}

RangeReplies(node) ==
    IF node = "price_range" THEN {range.text : range \in RangeAnswers} ELSE {}

\* messages of a conversation whose file is damaged
MaxCorruptMessages == 4

\* the states of a world that have a transcript
Transcribed(world) == {state \in StatesOf(world) : Has(state, "messages")}

WithinCorruptBounds(world) ==
    \A state \in Transcribed(world) :
        Bounded(state) /\ Len(state.messages) <= MaxCorruptMessages

\* a state file cut short: an object without messages, currentNode and
\* the other fields
TruncatedState(username) == [username |-> username]

\* what a damaged state file may hold
CorruptContents(username) == {Unparsable, TruncatedState(username)}

\* fs.writeFileSync of the state file during a call: every write succeeds,
\* every write fails, or the first fails and the next succeeds
Writes == {"ok", "fail", "retry"}

\* the appends to the log that may fail during a call
LogRecords == {"log", "summary"}

\* the times at which a call for username may run: when it reads the clock
\* for a new log path, a time after every time stamp handed out before
Times(world, username) ==
    IF createsGraphLogPath(world.store, username)
    THEN {t \in {world.store.clock + 1} : t <= MaxClock}
    ELSE {world.store.clock}

\* -- the operations --------------------------------------------------------

\* the conversations followed: whole ones of one homeowner ("whole"), the
\* first turns of two usernames with one file ("alias"), or whole ones in
\* which a very long number may be given ("long"), or the first turns of
\* conversations during which writes fail ("faults"), whose file is
\* damaged ("corrupt"), of two homeowners ("pair"), or in which calls
\* run at the same time ("overlap")
Within(scope, world) ==
    CASE scope = "alias" -> WithinAliasBounds(world)
      [] scope = "faults" -> WithinFaultBounds(world)
      [] scope = "corrupt" -> WithinCorruptBounds(world)
      [] scope = "pair" -> WithinPairBounds(world)
      [] scope = "overlap" -> WithinOverlapBounds(world)
      [] scope = "loop" -> WithinLoopBounds(world)
      [] scope = "prices" -> WithinPriceBounds(world)
      [] OTHER -> WithinBounds(world)

\* a message with a number of 309 digits: "999...9/2"
LongReplies(node) ==
    IF node = "bedrooms_bathrooms" THEN {<<NinesRun, "/", "2">>} ELSE {}

\* what a homeowner may say at a node
Said(scope, node) ==
    CASE scope = "long" -> Replies(node) \cup LongReplies(node)
      [] scope = "prices" -> Replies(node) \cup RangeReplies(node)
      [] OTHER -> Replies(node)

\* the call has returned (or thrown): its result is the new state
Respond(username, userMessage, result, scope) ==
    /\ Within(scope, result.world)
    /\ Becomes(result.world)
    /\ ret' = Call("chat", username, userMessage, result.threw, result.text, Null)

\* POST /graph/chat, for the conversations of the scope
Turn(username, scope) ==
    \E userMessage \in Said(scope, NodeOf(World, username)),
       outcome \in LLMOutcomes, now \in Times(World, username) :
        Respond(username, userMessage,
                chat(World, username, userMessage, outcome, "ok", now), scope)

Chat(username) == Turn(username, "whole") /\ UNCHANGED pending

ChatAlias(username) == Turn(username, "alias") /\ UNCHANGED pending

ChatLong(username) == Turn(username, "long") /\ UNCHANGED pending

\* POST /graph/chat in an environment where writes may fail
Attempt(username, scope, writes, broken) ==
    \E userMessage \in Replies(NodeOf(World, username)),
       outcome \in LLMOutcomes, now \in Times(World, username) :
        Respond(username, userMessage,
                chat([World EXCEPT !.store.broken = broken], username,
                     userMessage, outcome, writes, now),
                scope)

\* ... while writes of the state file may fail
ChatFaulty(username) ==
    /\ \E writes \in Writes : Attempt(username, "faults", writes, {})
    /\ UNCHANGED pending

\* ... while appends to the log may fail
ChatUnlogged(username) ==
    /\ \E broken \in SUBSET LogRecords : Attempt(username, "faults", "ok", broken)
    /\ UNCHANGED pending

ChatLoop(username) == Turn(username, "loop") /\ UNCHANGED pending

ChatPrices(username) == Turn(username, "prices") /\ UNCHANGED pending

ChatCorrupt(username) == Turn(username, "corrupt") /\ UNCHANGED pending

ChatPair(username) == Turn(username, "pair") /\ UNCHANGED pending

\* the state file of username is damaged (by another program, a crash or
\* the disk)
Corrupt(username) ==
    /\ getGraphStatePath(username) \in DOMAIN graphStateFiles
    /\ \E content \in CorruptContents(username) :
          graphStateFiles' = Put(graphStateFiles, getGraphStatePath(username), content)
    /\ ret' = Call("corrupt", username, <<>>, FALSE, <<>>, Null)
    /\ UNCHANGED <<activeStates, logFiles, clock, pending>>

\* -- chat calls that run at the same time ------------------------------------

\* the calls that have not returned
InFlight == {id \in DOMAIN pending : pending[id].at # "done"}

\* a call that waits at an await
Suspended(username, userMessage, step, base) ==
    [username |-> username, userMessage |-> userMessage, at |-> step.at,
     processorResult |-> step.processorResult, request |-> step.request,
     previousNode |-> step.previousNode, nextNode |-> step.nextNode,
     base |-> base]

\* a call that has returned
Finished(username, userMessage, base) ==
    [username |-> username, userMessage |-> userMessage, at |-> "done",
     base |-> base]

\* the call `id` has run to its next await or to its return
Settle(username, userMessage, id, others, step, base) ==
    IF step.done
    THEN /\ Within("overlap", step.result.world)
         /\ Becomes(step.result.world)
         /\ ret' = Call("chat", username, userMessage, step.result.threw,
                        step.result.text, Null)
         /\ pending' = Put(others, id, Finished(username, userMessage, base))
    ELSE /\ Within("overlap", step.world)
         /\ Becomes(step.world)
         /\ ret' = Call("await", username, userMessage, FALSE, <<>>, Null)
         /\ pending' = Put(others, id, Suspended(username, userMessage, step, base))

\* POST /graph/chat arrives: the first call of a group, or a second call
\* while the first has not returned; it runs to its first await
Begin(username) ==
    /\ InFlight = {} \/ (DOMAIN pending = {1} /\ InFlight = {1})
    /\ \E userMessage \in Replies(NodeOf(World, username)),
          now \in Times(World, username) :
           Settle(username, userMessage, IF InFlight = {} THEN 1 ELSE 2,
                  IF InFlight = {} THEN EmptyMap ELSE pending,
                  begin(World, username, userMessage, now), World)

\* the promise of processCurrentNode has settled: the call goes on to its
\* next await or to its return
Resume(id) ==
    /\ id \in InFlight
    /\ pending[id].at = "processing"
    /\ \E now \in Times(World, pending[id].username) :
           Settle(pending[id].username, pending[id].userMessage, id, pending,
                  resume(World, pending[id].username, pending[id], now),
                  pending[id].base)

\* the completion request has settled: the call goes on to its return
Finish(id) ==
    /\ id \in InFlight
    /\ pending[id].at \in {"clarifying", "asking"}
    /\ \E outcome \in LLMOutcomes, now \in Times(World, pending[id].username) :
           Settle(pending[id].username, pending[id].userMessage, id, pending,
                  Done(finish(World, pending[id].username, pending[id],
                              outcome, now)),
                  pending[id].base)

\* POST /graph/reset
ResetConversation(username) ==
    /\ Becomes(resetConversation(World, username))
    /\ ret' = Call("reset", username, <<>>, FALSE, <<>>, Null)
    /\ UNCHANGED pending

\* GET /graph/state
GetConversationState(username) ==
    /\ ret' = Call("state", username, <<>>, FALSE, <<>>,
                   getConversationState(World, username))
    /\ UNCHANGED <<activeStates, graphStateFiles, logFiles, clock, pending>>

\* the process is restarted: the map is empty again, the files stay
Restart ==
    /\ activeStates' = EmptyMap
    /\ ret' = Call("restart", <<>>, <<>>, FALSE, <<>>, Null)
    /\ UNCHANGED <<graphStateFiles, logFiles, clock, pending>>

Init ==
    /\ activeStates = EmptyMap
    /\ graphStateFiles = EmptyMap
    /\ logFiles = EmptyMap
    /\ clock = 0
    /\ pending = EmptyMap
    /\ ret = Call("none", <<>>, <<>>, FALSE, <<>>, Null)

\* one homeowner, whole conversations
Next ==
    \/ \E username \in Usernames : Chat(username)
    \/ \E username \in Usernames : ResetConversation(username)
    \/ \E username \in Usernames : GetConversationState(username)
    \/ Restart

Spec == Init /\ [][Next]_vars

\* POST /graph/chat with a message the node of the conversation takes as
\* an answer
ChatAnswered(username) ==
    /\ NodeOf(World, username) # "start"
    /\ Chat(username)
    /\ ~IsUnclear(processed(NodeOf(World, username),
                            [lastResponse |-> ret'.userMessage]).extractedValue)

\* ChatAnswered(username) can be taken: a conversation goes on (each node
\* has an answer it takes, and no bound keeps it from being given)
Answerable(username) == NodeOf(World, username) # "start"

NextTerminates ==
    \/ \E username \in Usernames : Chat(username)
    \/ Restart

\* one homeowner who goes through one conversation; while it goes on, a
\* message its node takes as an answer is given in the end: weak fairness
\* of ChatAnswered, WF_vars(ChatAnswered(username)), with its ENABLED
\* written as the state predicate Answerable
SpecTerminates ==
    /\ Init
    /\ [][NextTerminates]_vars
    /\ \A username \in Usernames :
          \/ []<>(~Answerable(username))
          \/ []<><<ChatAnswered(username)>>_vars

\* two usernames with one file name, the first turns of conversations
NextAlias ==
    \/ \E username \in AliasUsernames : ChatAlias(username)
    \/ \E username \in AliasUsernames : ResetConversation(username)
    \/ \E username \in AliasUsernames : GetConversationState(username)
    \/ Restart

SpecAlias == Init /\ [][NextAlias]_vars

\* one homeowner, conversations with long numbers, and restarts
NextRestart ==
    \/ \E username \in Usernames : ChatLong(username)
    \/ Restart

SpecRestart == Init /\ [][NextRestart]_vars

\* one homeowner, the first turns of conversations, failing writes
NextFaults ==
    \/ \E username \in Usernames : ChatFaulty(username)
    \/ \E username \in Usernames : ResetConversation(username)
    \/ Restart

SpecFaults == Init /\ [][NextFaults]_vars

\* one homeowner, the first turns of conversations, failing log appends
NextUnlogged ==
    \/ \E username \in Usernames : ChatUnlogged(username)
    \/ \E username \in Usernames : ResetConversation(username)
    \/ Restart

SpecUnlogged == Init /\ [][NextUnlogged]_vars

\* one homeowner whose answers may be unclear several times in a row
NextLoop ==
    \/ \E username \in Usernames : ChatLoop(username)
    \/ Restart

SpecLoop == Init /\ [][NextLoop]_vars

\* one homeowner who gives the price as a range
NextPrices ==
    \/ \E username \in Usernames : ChatPrices(username)
    \/ Restart

SpecPrices == Init /\ [][NextPrices]_vars

\* one homeowner, the first turns of conversations, damaged state files
NextCorrupt ==
    \/ \E username \in Usernames : ChatCorrupt(username)
    \/ \E username \in Usernames : Corrupt(username)
    \/ Restart

SpecCorrupt == Init /\ [][NextCorrupt]_vars

\* two homeowners, the first turns of their conversations, in any order
NextPair ==
    \/ \E username \in PairUsernames : ChatPair(username)
    \/ \E username \in PairUsernames : ResetConversation(username)
    \/ Restart

SpecPair == Init /\ [][NextPair]_vars

\* one homeowner whose chat calls may run at the same time, each call a
\* step from await to await
NextOverlap ==
    \/ \E username \in Usernames : Begin(username)
    \/ \E id \in 1..MaxOverlap : Resume(id)
    \/ \E id \in 1..MaxOverlap : Finish(id)

SpecOverlap == Init /\ [][NextOverlap]_vars

\* -- a reset while a chat call waits for the completion backend -------------
\* The call keeps the state object it got from the map in its variable
\* `state`; when resetConversation has taken the object out of the map,
\* the turn of pending carries it in the field `state`.

\* the call holds an object that the map no longer has
Held(turn) == Has(turn, "state")

\* the turn of a call with the object it holds
Holding(turn, state) ==
    [username |-> turn.username, userMessage |-> turn.userMessage,
     at |-> turn.at, processorResult |-> turn.processorResult,
     request |-> turn.request, previousNode |-> turn.previousNode,
     nextNode |-> turn.nextNode, base |-> turn.base, state |-> state]

\* ... when it has returned
Released(turn) ==
    [username |-> turn.username, userMessage |-> turn.userMessage,
     at |-> "done", base |-> turn.base, state |-> turn.state]

\* POST /graph/chat arrives while no call is in flight
BeginAlone(username) == InFlight = {} /\ Begin(username)

\* the completion request of a call settles whose object is in the map
FinishCached(id) == id \in InFlight /\ ~Held(pending[id]) /\ Finish(id)

\* POST /graph/reset while a call for the username waits for the
\* completion backend (await formatClarification, await formatQuestion)
ResetInFlight(username) ==
    /\ \E id \in InFlight :
          /\ pending[id].username = username
          /\ pending[id].at \in {"clarifying", "asking"}
          /\ ~Held(pending[id])
    /\ Becomes(resetConversation(World, username))
    /\ pending' = [id \in DOMAIN pending |->
                     IF id \in InFlight /\ pending[id].username = username
                     THEN Holding(pending[id], activeStates[username])
                     ELSE pending[id]]
    /\ ret' = Call("reset", username, <<>>, FALSE, <<>>, Null)

\* the completion request of a call settles after a reset: the call goes
\* on with the object it holds, this.activeStates.set(username, state) and
\* saveGraphState(state) included
Release(id, result) ==
    /\ Within("overlap", result.world)
    /\ Becomes(result.world)
    /\ ret' = Call("chat", pending[id].username, pending[id].userMessage,
                   result.threw, result.text, Null)
    /\ pending' = Put(pending, id, Released(pending[id]))

FinishHeld(id) ==
    /\ id \in InFlight
    /\ Held(pending[id])
    /\ \E outcome \in LLMOutcomes, now \in Times(World, pending[id].username) :
           Release(id, finish(Cache(World, pending[id].username, pending[id].state),
                              pending[id].username, pending[id], outcome, now))

\* one homeowner whose conversation may be reset while a call waits
NextReset ==
    \/ \E username \in Usernames : BeginAlone(username)
    \/ \E id \in 1..MaxOverlap : Resume(id)
    \/ \E id \in 1..MaxOverlap : FinishCached(id)
    \/ \E username \in Usernames : ResetInFlight(username)
    \/ \E id \in 1..MaxOverlap : FinishHeld(id)

SpecReset == Init /\ [][NextReset]_vars

\* -- determineNextNode on its own -------------------------------------------
\* ret holds a state and the node determineNextNode gives for it; the state
\* takes every node, every value of the flags it reads, and other values
\* of fields it does not read.

Tri == {Null, Some(TRUE), Some(FALSE)}

BranchFlags ==
    {"interestedInSelling", "hasOtherProperty", "isTenantOccupied",
     "isAnnualLease"}

Determined(state) ==
    Call("determineNextNode", state.username, <<>>, FALSE,
         <<determineNextNode(state.currentNode, state)>>, Some(state))

InitTransitions ==
    /\ activeStates = EmptyMap
    /\ graphStateFiles = EmptyMap
    /\ logFiles = EmptyMap
    /\ clock = 0
    /\ pending = EmptyMap
    /\ ret = Determined(initialState(<<"a"," ","b">>))

AtNode ==
    /\ \E node \in ConversationNode :
          ret' = Determined([Get(ret.state) EXCEPT !.currentNode = node])
    /\ UNCHANGED <<activeStates, graphStateFiles, logFiles, clock, pending>>

WithFlag ==
    /\ \E flag \in BranchFlags, value \in Tri :
          ret' = Determined([Get(ret.state) EXCEPT ![flag] = value])
    /\ UNCHANGED <<activeStates, graphStateFiles, logFiles, clock, pending>>

WithEmail ==
    /\ \E email \in {Null, Some(<<"a","@","b",".","c","o">>)} :
          ret' = Determined([Get(ret.state) EXCEPT !.email = email])
    /\ UNCHANGED <<activeStates, graphStateFiles, logFiles, clock, pending>>

NextTransitions == AtNode \/ WithFlag \/ WithEmail

SpecTransitions == InitTransitions /\ [][NextTransitions]_vars


\* -- validateYesNo on its own ------------------------------------------------
\* ret holds an utterance and what validateYesNo makes of it; the
\* utterances are made of up to MaxWords words, some of them keywords,
\* some containing a keyword, in either case.

MaxWords == 3

YesNoWords ==
    {<<"y","e","s">>, <<"n","o">>, <<"n","o","t">>, <<"r","i","g","h","t">>, <<"k","n","o","w">>, <<"n","o","p","e">>, <<"I">>, <<"d","o">>, <<"d","o","n","'","t">>,
     <<"r","e","a","l","l","y">>, <<"y","e","t">>, <<"Y","E","S",",">>, <<"m","a","y","b","e">>}

YesNoExamples == {<<"n","o",","," ","t","h","a","t"," ","i","s"," ","n","o","t"," ","r","i","g","h","t">>, <<" ","A","b","s","o","l","u","t","e","l","y"," ">>, <<"k","n","o","t">>, <<"y","e","s","s","i","r">>}

\* the words of an utterance
WordCount(response) ==
    Cardinality({i \in 1..Len(response) : response[i] = " "}) + 1

Validated(response) ==
    Call("validateYesNo", <<>>, response, FALSE, <<>>, Some(validateYesNo(response)))

\* validateYesNo is applied to a word or an example
Utter ==
    /\ \E response \in YesNoWords \cup YesNoExamples : ret' = Validated(response)
    /\ UNCHANGED <<activeStates, graphStateFiles, logFiles, clock, pending>>

\* ... and to the last utterance with one more word
Extend ==
    /\ ret.op = "validateYesNo"
    /\ WordCount(ret.userMessage) < MaxWords
    /\ \E word \in YesNoWords : ret' = Validated(ret.userMessage \o <<" ">> \o word)
    /\ UNCHANGED <<activeStates, graphStateFiles, logFiles, clock, pending>>

NextYesNo == Utter \/ Extend

SpecYesNo == Init /\ [][NextYesNo]_vars

\* -- sanitizeUsername on its own ---------------------------------------------
\* ret holds a username and its sanitized form; the usernames are typed
\* character by character, with at most one long run of letters in them so
\* that some are longer than the cap.

\* characters typed one by one
MaxTyped == 3

\* the letters of the long run
RunLength == 62

NameChars == {"a", "Z", "7", " ", ".", "-", "_", "/", "@"}

LongRun == [i \in 1..RunLength |-> "x"]

Sanitized(username) ==
    Call("sanitizeUsername", username, <<>>, FALSE, sanitizeUsername(username), Null)

\* the characters of a username that were typed one by one
Typed(username) == Cardinality({i \in 1..Len(username) : username[i] # "x"})

\* sanitizeUsername is applied to the last username with one more character
TypeChar ==
    /\ Typed(ret.username) < MaxTyped
    /\ \E c \in NameChars : ret' = Sanitized(ret.username \o <<c>>)
    /\ UNCHANGED <<activeStates, graphStateFiles, logFiles, clock, pending>>

\* ... and with a long run of letters more
TypeRun ==
    /\ Len(ret.username) < RunLength
    /\ ret' = Sanitized(ret.username \o LongRun)
    /\ UNCHANGED <<activeStates, graphStateFiles, logFiles, clock, pending>>

InitSanitize ==
    /\ activeStates = EmptyMap
    /\ graphStateFiles = EmptyMap
    /\ logFiles = EmptyMap
    /\ clock = 0
    /\ pending = EmptyMap
    /\ ret = Sanitized(<<>>)

NextSanitize == TypeChar \/ TypeRun

SpecSanitize == InitSanitize /\ [][NextSanitize]_vars

\* ------------------------------------------------------------------------
\* The linear flow: CallerService, its script and its storage
\* ------------------------------------------------------------------------
\* A script (questions.json) is a list of questions, the texts of the
\* conditional flows, the rebuttals and the closing.  The texts are not in
\* the repository; a text is kept as its place in the script.  The indices
\* of the questions are those of JavaScript, questions[i] being the
\* (i + 1)-th element of the sequence.

QuestionText(idx) == <<"questions[", ToString(idx), "]">>

Script(count) ==
    [questions |-> [i \in 1..count |-> QuestionText(i - 1)],
     conditionalFlows |->
        [initialResponse |->
            [no |-> [followUp |-> <<"initialResponse.no.followUp">>,
                     noAgain |-> <<"initialResponse.no.noAgain">>],
             yes |-> [followUp |-> <<"initialResponse.yes.followUp">>]],
         priceNegotiable |->
            [yes |-> [followUp |-> <<"priceNegotiable.yes.followUp">>]],
         tenantOccupied |->
            [yes |-> [followUp |-> <<"tenantOccupied.yes.followUp">>,
                      annual |-> <<"tenantOccupied.yes.annual">>]]],
     closing |-> [thankYou |-> <<"closing.thankYou">>]]

\* questions[idx]
QuestionAt(script, idx) == script.questions[idx + 1]

NEGATIVE_RE ==
    Words(<<<<"n","o">>, <<"n","o","p","e">>, <<"n","o","t"," ","r","e","a","l","l","y">>, <<"n","e","v","e","r">>, <<"d","o","n","'","t"," ","t","h","i","n","k"," ","s","o">>>>)

POSITIVE_RE ==
    Words(<<<<"y","e","s">>, <<"y","e","a","h">>, <<"s","u","r","e">>, <<"d","e","f","i","n","i","t","e","l","y">>, <<"a","b","s","o","l","u","t","e","l","y">>, <<"m","a","y","b","e">>,
            <<"p","o","s","s","i","b","l","y">>>>)

FlowTenantRe == Words(<<<<"t","e","n","a","n","t">>, <<"r","e","n","t","e","r">>, <<"r","e","n","t">>>>)

FlowAnnualRe == Words(<<<<"a","n","n","u","a","l">>, <<"y","e","a","r","l","y">>, <<"y","e","a","r">>>>)

FlowOwnerRe == Words(<<<<"m","e">>, <<"m","y","s","e","l","f">>, <<"i"," ","l","i","v","e">>, <<"o","w","n","e","r">>>>)

\* a FlowResult; a field that is not given is Null or the empty list
FlowResult(response, nextQuestionIndex, skipQuestionsToAdd, interestedInSelling) ==
    [response |-> response, nextQuestionIndex |-> nextQuestionIndex,
     skipQuestionsToAdd |-> skipQuestionsToAdd,
     interestedInSelling |-> interestedInSelling]

evaluateConditionalFlow(script, questionIdx, answerText, convData) ==
    With(toLowerCase(answerText), LAMBDA lowerAnswer :
    With(Test(NEGATIVE_RE, lowerAnswer), LAMBDA isNegative :
    With(Test(POSITIVE_RE, lowerAnswer), LAMBDA isPositive :
        IF questionIdx = 0 /\ isNegative
        THEN FlowResult(Some(script.conditionalFlows.initialResponse.no.followUp),
                        Some(1), <<>>, Some(FALSE))
        ELSE IF questionIdx = 0 /\ isPositive
        THEN FlowResult(Some(script.conditionalFlows.initialResponse.yes.followUp
                             \o <<"\n\n">> \o QuestionAt(script, 3)),
                        Some(3), <<1, 2>>, Some(TRUE))
        ELSE IF questionIdx = 1 /\ isNegative
        THEN FlowResult(Some(script.conditionalFlows.initialResponse.no.noAgain),
                        Some(2), <<>>, Null)
        ELSE IF questionIdx = 4 /\ isPositive
        THEN FlowResult(Some(script.conditionalFlows.priceNegotiable.yes.followUp),
                        Some(5), <<>>, Null)
        ELSE IF questionIdx = 15 /\ Test(FlowTenantRe, lowerAnswer)
        THEN FlowResult(Some(script.conditionalFlows.tenantOccupied.yes.followUp),
                        Some(16), <<>>, Null)
        ELSE IF questionIdx = 16 /\ Test(FlowAnnualRe, lowerAnswer)
        THEN FlowResult(Some(script.conditionalFlows.tenantOccupied.yes.annual),
                        Some(17), <<>>, Null)
        ELSE IF questionIdx = 15 /\ Test(FlowOwnerRe, lowerAnswer)
        THEN FlowResult(Null, Null, <<16, 17>>, Null)
        ELSE FlowResult(Null, Null, <<>>, Null))))

\* -- analyzer.ts ----------------------------------------------------------------

QuestionStarts ==
    Cat(<<Alt(<<Lit(<<"w","h","o">>), Lit(<<"w","h","a","t">>), Lit(<<"w","h","e","r","e">>), Lit(<<"w","h","e","n">>),
                Lit(<<"w","h","y">>), Lit(<<"h","o","w">>), Lit(<<"c","a","n">>), Lit(<<"c","o","u","l","d">>),
                Lit(<<"w","o","u","l","d">>), Lit(<<"w","i","l","l">>), Lit(<<"i","s">>), Lit(<<"a","r","e">>),
                Lit(<<"d","o">>), Lit(<<"d","o","e","s">>)>>), WB>>)

RequestStarts ==
    Alt(<<Lit(<<"t","e","l","l"," ","m","e">>), Lit(<<"e","x","p","l","a","i","n">>), Lit(<<"i"," ","w","a","n","t"," ","t","o"," ","k","n","o","w">>)>>)

\* /^.../i: a match that begins at the first character
TestAtStartI(re, s) ==
    Match(re, toLowerCase(s), [pos |-> 1, caps |-> NoCaps]) # <<>>

isUserAskingQuestion(message) ==
    With(trim(message), LAMBDA text :
        \/ endsWith(text, <<"?">>)
        \/ TestAtStartI(QuestionStarts, text)
        \/ TestAtStartI(RequestStarts, text))

\* -- ConversationMemoryManager ------------------------------------------------
\* The conversation data of the usernames that have a memory; the messages
\* of a memory are read only to word the request to the completion backend
\* and are not kept.

NewConversationData ==
    [currentQuestionIndex |-> -1, answers |-> EmptyMap,
     interestedInSelling |-> Null, skipQuestions |-> <<>>]

hasMemory(w, username) == username \in DOMAIN w.conversationData

getOrCreateMemory(w, username) ==
    IF hasMemory(w, username) THEN w
    ELSE [w EXCEPT !.conversationData = Put(@, username, NewConversationData)]

getConversationData(w, username) ==
    IF username \in DOMAIN w.conversationData
    THEN w.conversationData[username]
    ELSE NewConversationData

\* { ...existing, ...data }
updateConversationData(w, username, data) ==
    With(getConversationData(w, username), LAMBDA existing :
        [w EXCEPT !.conversationData =
            Put(@, username,
                [f \in DOMAIN existing |->
                    IF f \in DOMAIN data THEN data[f] ELSE existing[f]])])

clearMemory(w, username) ==
    [w EXCEPT !.conversationData = Remove(@, username)]

\* -- CallerStorage ----------------------------------------------------------------
\* A state file is kept as the state that is read from it; a field that is
\* undefined is Null.

EmptyUserState ==
    [logPath |-> Null, currentQuestionIndex |-> Null, answers |-> EmptyMap,
     skipQuestions |-> <<>>, interestedInSelling |-> Null]

callerReadState(w, username) ==
    IF username \in DOMAIN w.files THEN w.files[username] ELSE EmptyUserState

callerWriteState(w, username, state) ==
    [w EXCEPT !.files = Put(@, username, state)]

callerGetLogPath(w, username) == [username |-> username, ts |-> w.clock]

saveConversationState(w, usernameRaw, data) ==
    With(sanitizeUsername(usernameRaw), LAMBDA username :
    With(callerReadState(w, username), LAMBDA state :
        callerWriteState(w, username,
            [logPath |-> IF state.logPath = Null
                         THEN Some(callerGetLogPath(w, username))
                         ELSE state.logPath,
             currentQuestionIndex |-> Some(data.currentQuestionIndex),
             answers |-> data.answers,
             skipQuestions |-> data.skipQuestions,
             interestedInSelling |-> data.interestedInSelling])))

callerLoadConversationState(w, usernameRaw) ==
    callerReadState(w, sanitizeUsername(usernameRaw))

clearConversationState(w, usernameRaw) ==
    [w EXCEPT !.files = Remove(@, sanitizeUsername(usernameRaw))]

\* an entry of a log; the analysis is given for an answer to a question of
\* the script, what the backend extracted is not kept
LogEntry(questionIndex, questionText, aiResponse, userMessage, analysed) ==
    [questionIndex |-> questionIndex, questionText |-> questionText,
     aiResponse |-> aiResponse, userMessage |-> userMessage,
     analysed |-> analysed]

AppendTo(w, logPath, entry) ==
    [w EXCEPT !.logs =
        Put(@, logPath,
            (IF logPath \in DOMAIN @ THEN @[logPath] ELSE <<>>) \o <<entry>>)]

appendLog(w, username, questionIndex, questionText, aiResponse, userMessage, analysed) ==
    With(callerLoadConversationState(w, username), LAMBDA state :
    With(LogEntry(questionIndex, questionText, aiResponse, userMessage, analysed), LAMBDA entry :
        IF state.logPath = Null
        THEN With(callerGetLogPath(w, username), LAMBDA logPath :
                AppendTo(callerWriteState(w, sanitizeUsername(username),
                                          [state EXCEPT !.logPath = Some(logPath)]),
                         logPath, entry))
        ELSE AppendTo(w, Get(state.logPath), entry)))

\* -- CallerService ----------------------------------------------------------------

\* what a call gives: the world after it, the text it returns, whether it
\* was rejected instead, and the return statement it ended at
Replied(w, response, path) ==
    [world |-> w, response |-> response, threw |-> FALSE, path |-> path]

Rejected(w, path) ==
    [world |-> w, response |-> <<>>, threw |-> TRUE, path |-> path]

persistConversationState(w, username) ==
    saveConversationState(w, username, getConversationData(w, username))

loadConversationState(w, username) ==
    With(callerLoadConversationState(w, username), LAMBDA savedState :
        IF savedState.currentQuestionIndex # Null
        THEN updateConversationData(getOrCreateMemory(w, username), username,
                [currentQuestionIndex |-> Get(savedState.currentQuestionIndex),
                 answers |-> savedState.answers,
                 skipQuestions |-> savedState.skipQuestions,
                 interestedInSelling |-> savedState.interestedInSelling])
        ELSE w)

\* Array.from(new Set([...skipQuestions, ...skipQuestionsToAdd]))
RECURSIVE Merged(_, _)
Merged(list, more) ==
    IF more = <<>> THEN list
    ELSE Merged(IF \E i \in DOMAIN list : list[i] = Head(more)
                THEN list ELSE Append(list, Head(more)),
                Tail(more))

includesIndex(list, idx) == \E i \in DOMAIN list : list[i] = idx

handleConditionalFlow(w, script, username, questionIdx, answerText) ==
    With(getConversationData(w, username), LAMBDA convData :
    With(evaluateConditionalFlow(script, questionIdx, answerText, convData), LAMBDA result :
    With(IF result.interestedInSelling # Null
         THEN updateConversationData(w, username,
                  [interestedInSelling |-> result.interestedInSelling])
         ELSE w, LAMBDA w1 :
    With(IF result.skipQuestionsToAdd # <<>>
         THEN updateConversationData(w1, username,
                  [skipQuestions |-> Merged(convData.skipQuestions,
                                            result.skipQuestionsToAdd)])
         ELSE w1, LAMBDA w2 :
    With(IF result.nextQuestionIndex # Null
         THEN updateConversationData(w2, username,
                  [currentQuestionIndex |-> Get(result.nextQuestionIndex)])
         ELSE w2, LAMBDA w3 :
        [world |-> w3, response |-> result.response])))))

\* a variant with a plausible bug: the indices to skip are not looked at
getNextQuestionIndexPlain(w, username, totalQuestions) ==
    getConversationData(w, username).currentQuestionIndex + 1

RECURSIVE SkipFrom(_, _, _)
SkipFrom(skipQuestions, nextIdx, totalQuestions) ==
    IF includesIndex(skipQuestions, nextIdx) /\ nextIdx < totalQuestions
    THEN SkipFrom(skipQuestions, nextIdx + 1, totalQuestions)
    ELSE nextIdx

getNextQuestionIndex(w, username, totalQuestions) ==
    With(getConversationData(w, username), LAMBDA convData :
        SkipFrom(convData.skipQuestions, convData.currentQuestionIndex + 1,
                 totalQuestions))

\* the keywords of the rebuttals, in the order in which they are tried
rebuttalMatches ==
    << [key |-> "whereLocated",
        keywords |-> <<<<"w","h","e","r","e"," ","a","r","e"," ","y","o","u"," ","l","o","c","a","t","e","d">>, <<"w","h","e","r","e"," ","i","s"," ","y","o","u","r"," ","o","f","f","i","c","e">>, <<"l","o","c","a","t","i","o","n">>>>],
       [key |-> "personalLocation",
        keywords |-> <<<<"w","h","e","r","e"," ","a","r","e"," ","y","o","u"," ","p","e","r","s","o","n","a","l","l","y">>, <<"w","h","e","r","e"," ","d","o"," ","y","o","u"," ","w","o","r","k"," ","f","r","o","m">>>>],
       [key |-> "whoCallsBack",
        keywords |-> <<<<"w","h","o"," ","w","i","l","l"," ","c","a","l","l">>, <<"w","h","o"," ","i","s"," ","c","a","l","l","i","n","g"," ","b","a","c","k">>, <<"n","a","m","e"," ","o","f"," ","p","e","r","s","o","n">>>>],
       [key |-> "callbackNumber",
        keywords |-> <<<<"c","a","l","l"," ","b","a","c","k"," ","n","u","m","b","e","r">>, <<"c","a","l","l","b","a","c","k"," ","n","u","m","b","e","r">>, <<"y","o","u","r"," ","n","u","m","b","e","r">>>>],
       [key |-> "whatDoWithProperty",
        keywords |-> <<<<"w","h","a","t"," ","d","o"," ","y","o","u"," ","d","o"," ","w","i","t","h">>, <<"f","l","i","p"," ","i","t">>, <<"k","e","e","p"," ","i","t">>, <<"r","e","n","t"," ","i","t">>>>],
       [key |-> "renterConcern",
        keywords |-> <<<<"w","h","a","t"," ","a","b","o","u","t"," ","t","h","e"," ","r","e","n","t","e","r">>, <<"t","e","n","a","n","t">>, <<"w","h","a","t"," ","h","a","p","p","e","n","s"," ","t","o">>>>],
       [key |-> "whyCalling",
        keywords |-> <<<<"w","h","y"," ","a","r","e"," ","y","o","u"," ","c","a","l","l","i","n","g">>, <<"w","h","y"," ","d","i","d"," ","y","o","u"," ","c","a","l","l">>>>],
       [key |-> "scamSpam", keywords |-> <<<<"s","c","a","m">>, <<"s","p","a","m">>, <<"s","u","s","p","i","c","i","o","u","s">>>>],
       [key |-> "website", keywords |-> <<<<"w","e","b","s","i","t","e">>, <<"w","e","b"," ","s","i","t","e">>, <<"o","n","l","i","n","e">>>>],
       [key |-> "wantsOfferNow",
        keywords |-> <<<<"g","i","v","e"," ","m","e"," ","a","n"," ","o","f","f","e","r">>, <<"o","f","f","e","r"," ","n","o","w">>, <<"h","o","w"," ","m","u","c","h">>>>],
       [key |-> "comeVisitFirst",
        keywords |-> <<<<"c","o","m","e"," ","l","o","o","k">>, <<"v","i","s","i","t"," ","f","i","r","s","t">>, <<"s","e","e"," ","t","h","e"," ","p","r","o","p","e","r","t","y">>>>],
       [key |-> "whereGotNumber",
        keywords |-> <<<<"w","h","e","r","e"," ","d","i","d"," ","y","o","u"," ","g","e","t"," ","m","y"," ","n","u","m","b","e","r">>, <<"h","o","w"," ","d","i","d"," ","y","o","u"," ","g","e","t">>>>],
       [key |-> "whatPublicRecords",
        keywords |-> <<<<"p","u","b","l","i","c"," ","r","e","c","o","r","d","s">>, <<"w","h","a","t"," ","r","e","c","o","r","d","s">>>>],
       [key |-> "officeAddress", keywords |-> <<<<"o","f","f","i","c","e"," ","a","d","d","r","e","s","s">>, <<"a","d","d","r","e","s","s">>>>],
       [key |-> "notEnoughMoney",
        keywords |-> <<<<"n","o","t"," ","e","n","o","u","g","h"," ","m","o","n","e","y">>, <<"c","a","n","'","t"," ","a","f","f","o","r","d">>, <<"d","o","n","'","t"," ","h","a","v","e"," ","m","o","n","e","y">>>>],
       [key |-> "checkInternet",
        keywords |-> <<<<"c","h","e","c","k"," ","t","h","e"," ","i","n","t","e","r","n","e","t">>, <<"l","o","o","k"," ","o","n","l","i","n","e">>, <<"z","i","l","l","o","w">>>>] >>

\* the rebuttal of the first entry one of whose keywords is in the question
RECURSIVE RebuttalFrom(_, _)
RebuttalFrom(lowerQuestion, k) ==
    IF k > Len(rebuttalMatches) THEN Null
    ELSE IF \E i \in DOMAIN rebuttalMatches[k].keywords :
               includes(lowerQuestion, rebuttalMatches[k].keywords[i])
    THEN Some(<<"rebuttals.", rebuttalMatches[k].key>>)
    ELSE RebuttalFrom(lowerQuestion, k + 1)

handleRebuttal(userQuestion) == RebuttalFrom(toLowerCase(userQuestion), 1)

\* what the completion backend does with a request to word a question
CallerBackend == {"text", "empty", "fails"}

\* text || `${idx + 1}) ${question}`
callerFormatQuestion(idx, question, backend) ==
    IF backend = "text" THEN <<"asked naturally: ">> \o question
    ELSE <<ToString(idx + 1), ") ">> \o question

\* time passes
Later(w) == [w EXCEPT !.clock = @ + 1]

startConversation(w, script, usernameRaw) ==
    With(sanitizeUsername(usernameRaw), LAMBDA username :
    With(updateConversationData(
             getOrCreateMemory(
                 clearConversationState(clearMemory(w, username), username),
                 username),
             username, [currentQuestionIndex |-> 0]), LAMBDA w1 :
    With(QuestionAt(script, 0), LAMBDA firstQuestion :
    With(<<"intro.greeting">> \o <<"\n\n">> \o firstQuestion, LAMBDA openingMessage :
        Replied(Later(persistConversationState(
                          appendLog(w1, username, 0, firstQuestion,
                                    openingMessage, <<>>, FALSE),
                          username)),
                openingMessage, "start")))))

\* C) Move to next question (default)
moveToNext(w, script, username, currentIdx, currentQuestion, message, analysed, backend) ==
    With(getNextQuestionIndex(w, username, Len(script.questions)), LAMBDA nextIdx :
    With(persistConversationState(
             updateConversationData(w, username, [currentQuestionIndex |-> nextIdx]),
             username), LAMBDA w1 :
        IF nextIdx >= Len(script.questions)
        THEN Replied(appendLog(w1, username, currentIdx, currentQuestion,
                                script.closing.thankYou, message, analysed),
                      script.closing.thankYou, "closing")
        ELSE IF backend = "fails" THEN Rejected(w1, "next")
        ELSE With(callerFormatQuestion(nextIdx, QuestionAt(script, nextIdx), backend), LAMBDA response :
                Replied(appendLog(w1, username, currentIdx, currentQuestion,
                                   response, message, analysed),
                         response, "next"))))

\* B) Answer analysis + conditional flow
answerQuestion(w, script, username, currentIdx, message, backend) ==
    With(getConversationData(w, username), LAMBDA convData :
    With(updateConversationData(w, username,
             [answers |-> Put(convData.answers, currentIdx, message)]), LAMBDA w1 :
    With(handleConditionalFlow(w1, script, username, currentIdx, message), LAMBDA flow :
        IF flow.response # Null /\ Get(flow.response) # <<>>
        THEN Replied(persistConversationState(
                          appendLog(flow.world, username, currentIdx,
                                    QuestionAt(script, currentIdx),
                                    Get(flow.response), message, TRUE),
                          username),
                      Get(flow.response), "conditional")
        ELSE moveToNext(flow.world, script, username, currentIdx,
                        QuestionAt(script, currentIdx), message, TRUE, backend))))

\* a variant with a plausible bug: the question of the homeowner is kept as
\* the answer to the pending question
continueConversationAnswering(w, script, username, message, backend) ==
    With(getConversationData(w, username), LAMBDA convData :
    With(IF isUserAskingQuestion(message) THEN handleRebuttal(message) ELSE Null, LAMBDA rebuttal :
        IF rebuttal # Null
        THEN With(updateConversationData(w, username,
                      [answers |-> Put(convData.answers,
                                       convData.currentQuestionIndex, message)]), LAMBDA w1 :
                Replied(persistConversationState(
                            appendLog(w1, username, convData.currentQuestionIndex,
                                      QuestionAt(script, convData.currentQuestionIndex),
                                      Get(rebuttal), message, FALSE),
                            username),
                        Get(rebuttal), "rebuttal"))
        ELSE IF convData.currentQuestionIndex >= 0
                /\ convData.currentQuestionIndex < Len(script.questions)
        THEN answerQuestion(w, script, username, convData.currentQuestionIndex,
                            message, backend)
        ELSE moveToNext(w, script, username, convData.currentQuestionIndex,
                        <<"(unknown question)">>, message, FALSE, backend)))

\* a turn of a conversation that exists and is in memory
continueConversation(w, script, username, message, backend) ==
    With(getConversationData(w, username).currentQuestionIndex, LAMBDA currentIdx :
    With(IF currentIdx >= 0 /\ currentIdx < Len(script.questions)
         THEN QuestionAt(script, currentIdx)
         ELSE <<"(unknown question)">>, LAMBDA currentQuestion :
    With(IF isUserAskingQuestion(message) THEN handleRebuttal(message) ELSE Null, LAMBDA rebuttal :
        IF rebuttal # Null
        THEN Replied(persistConversationState(
                          appendLog(w, username, currentIdx, currentQuestion,
                                    Get(rebuttal), message, FALSE),
                          username),
                      Get(rebuttal), "rebuttal")
        ELSE IF currentIdx >= 0 /\ currentIdx < Len(script.questions)
        THEN answerQuestion(w, script, username, currentIdx, message, backend)
        ELSE moveToNext(w, script, username, currentIdx, currentQuestion,
                        message, FALSE, backend))))

callerChat(w, script, usernameRaw, message, backend) ==
    With(sanitizeUsername(usernameRaw), LAMBDA username :
        IF ~(hasMemory(w, username)
             \/ callerLoadConversationState(w, username).currentQuestionIndex # Null)
        THEN startConversation(w, script, username)
        ELSE With(IF hasMemory(w, username) THEN w
                  ELSE loadConversationState(w, username), LAMBDA w1 :
                IF Len(script.questions) = 0 THEN Rejected(w1, "script")
                ELSE continueConversation(w1, script, username, message, backend)))

callerResetConversation(w, usernameRaw) ==
    With(sanitizeUsername(usernameRaw), LAMBDA username :
        clearConversationState(clearMemory(w, username), username))


\* -- the linear flow as a machine ----------------------------------------------
\* activeStates holds the conversation data of the memories, graphStateFiles
\* the state files and logFiles the logs of the caller; clock counts the
\* conversations begun and gives the time stamps.

\* the questions of the script (those analyzer.ts knows the types of)
QuestionCount == 25

CallerScript == Script(QuestionCount)

CallerWorld ==
    [conversationData |-> activeStates, files |-> graphStateFiles,
     logs |-> logFiles, clock |-> clock]

\* the index chat(username, ...) will find, Null when it will start a
\* conversation
IndexFound(w, usernameRaw) ==
    With(sanitizeUsername(usernameRaw), LAMBDA username :
        IF hasMemory(w, username)
        THEN Some(getConversationData(w, username).currentQuestionIndex)
        ELSE callerLoadConversationState(w, username).currentQuestionIndex)

\* the entries of the log of the conversation
EntriesOf(w, usernameRaw) ==
    With(callerLoadConversationState(w, usernameRaw).logPath, LAMBDA logPath :
        IF logPath # Null /\ Get(logPath) \in DOMAIN w.logs
        THEN w.logs[Get(logPath)] ELSE <<>>)

\* entries of a log while the homeowner asks questions or the conversation
\* is reset
MaxEarlyEntries == 1

\* the first indices, at which the backend may be silent or fail
MaxFlakyIndex == 0

\* calls after the closing
MaxAfterClosing == 1

\* the conversations begun by one homeowner
MaxConversations == 2

Early(w, usernameRaw) == Len(EntriesOf(w, usernameRaw)) <= MaxEarlyEntries

\* what a homeowner answers to the question of an index
CallerReplies(idx) ==
    CASE idx = 0 -> {<<"y","e","s">>, <<"n","o">>, <<"h","m","m">>}
      [] idx = 1 -> {<<"Y","e","s">>, <<"n","o","t"," ","r","e","a","l","l","y">>}
      [] idx = 4 -> {<<"S","u","r","e">>, <<"n","o">>}
      [] idx = 15 -> {<<"w","e"," ","r","e","n","t"," ","i","t"," ","o","u","t">>, <<"m","e">>, <<"i","t"," ","i","s"," ","v","a","c","a","n","t">>}
      [] idx = 16 -> {<<"m","o","n","t","h","l","y">>, <<"a","n","n","u","a","l">>, <<"Y","e","a","r","l","y">>}
      [] idx = 17 -> {<<"n","e","x","t"," ","j","u","n","e">>}
      [] OTHER -> {<<"o","k">>}

\* what a homeowner asks
CallerQuestions == {<<"w","h","y"," ","a","r","e"," ","y","o","u"," ","c","a","l","l","i","n","g","?">>, <<"i","s"," ","t","h","a","t"," ","s","o","?">>}

CallerSaid(w, usernameRaw) ==
    With(IndexFound(w, usernameRaw), LAMBDA found :
        IF found = Null THEN {<<"h","e","l","l","o">>}
        ELSE CallerReplies(Get(found))
             \cup (IF Early(w, usernameRaw) THEN CallerQuestions ELSE {}))

CallerBackends(w, usernameRaw) ==
    IF \A found \in IndexFound(w, usernameRaw) : found <= MaxFlakyIndex
    THEN CallerBackend ELSE {"text"}

CallerBecomes(w) ==
    /\ activeStates' = w.conversationData
    /\ graphStateFiles' = w.files
    /\ logFiles' = w.logs
    /\ clock' = w.clock

CallerRespond(usernameRaw, message, result) ==
    /\ CallerBecomes(result.world)
    /\ ret' = Call("callerChat", usernameRaw, message, result.threw,
                   result.response, Some(result.path))

\* POST /chat
CallerChat(usernameRaw) ==
    /\ \A found \in IndexFound(CallerWorld, usernameRaw) :
          found < QuestionCount + MaxAfterClosing
    /\ \E message \in CallerSaid(CallerWorld, usernameRaw),
          backend \in CallerBackends(CallerWorld, usernameRaw) :
            CallerRespond(usernameRaw, message,
                          callerChat(CallerWorld, CallerScript, usernameRaw,
                                     message, backend))
    /\ UNCHANGED pending

\* CallerService.resetConversation
CallerReset(usernameRaw) ==
    /\ IndexFound(CallerWorld, usernameRaw) # Null
    /\ Early(CallerWorld, usernameRaw)
    /\ Cardinality(DOMAIN logFiles) < MaxConversations
    /\ CallerBecomes(callerResetConversation(CallerWorld, usernameRaw))
    /\ ret' = Call("resetConversation", usernameRaw, <<>>, FALSE, <<>>, Null)
    /\ UNCHANGED pending

NextLinear ==
    \/ \E username \in Usernames : CallerChat(username)
    \/ \E username \in Usernames : CallerReset(username)
    \/ Restart

SpecLinear == Init /\ [][NextLinear]_vars
\* ------------------------------------------------------------------------
\* Properties
\* ------------------------------------------------------------------------

\* the step is a call of chat(username, ret'.userMessage)
ChatStep(username) == ret'.op = "chat" /\ ret'.username = username

\* the step is a call of resetConversation(username)
ResetStep(username) == ret'.op = "reset" /\ ret'.username = username

\* the state file of username, if there is one
Persisted(files, username) ==
    IF getGraphStatePath(username) \in DOMAIN files
    THEN Some(files[getGraphStatePath(username)])
    ELSE Null

\* both copies of the state of username, in the map and in the file
Copies(cache, files, username) ==
    {cache[u] : u \in {username} \cap DOMAIN cache}
        \cup {files[f] : f \in {getGraphStatePath(username)} \cap DOMAIN files}

\* what the node of a conversation makes of a message
Extraction(state, userMessage) ==
    processed(state.currentNode, [lastResponse |-> userMessage]).extractedValue

InProgress(found) == found # Null /\ ~Get(found).isComplete

Complete(found) == found # Null /\ Get(found).isComplete

\* -- C1 ------------------------------------------------------------------

KeptWhenUnclear ==
    {"currentNode", "interestedInSelling", "hasOtherProperty",
     "isTenantOccupied", "isAnnualLease", "email", "answers",
     "extractedAnswers"}

\* the clarification the validator asks for (the question when it has none)
ClarificationOf(state, userMessage) ==
    IF Extraction(state, userMessage).v.clarification # <<>>
    THEN Extraction(state, userMessage).v.clarification
    ELSE QUESTIONS[state.currentNode]

\* text asks for the clarification, literally or as the backend words it
AsksFor(text, clarification) ==
    text = clarification \/ text = Get(llmInvoke("text", clarification))

Reasked(before, after, userMessage, text) ==
    /\ \A field \in KeptWhenUnclear : after[field] = before[field]
    /\ after.messages = before.messages
                          \o <<Message("human", userMessage), Message("ai", text)>>
    /\ AsksFor(text, ClarificationOf(before, userMessage))

UnclearTurn(found, userMessage) ==
    InProgress(found) /\ IsUnclear(Extraction(Get(found), userMessage))

\* C1: a chat turn whose message the current node finds unclear leaves
\* currentNode, the five flags, answers and extractedAnswers as they were,
\* in the map and in the file; the transcript grows by the message and the
\* reply, and the reply returned is the validator's clarification, literal
\* or rephrased by the backend.
UnclearTurnKeepsState ==
    [][\A username \in Usernames :
          ChatStep(username) /\ UnclearTurn(lookup(World, username), ret'.userMessage)
            => /\ ~ret'.threw
               /\ Copies(activeStates', graphStateFiles', username) # {}
               /\ \A after \in Copies(activeStates', graphStateFiles', username) :
                     Reasked(Get(lookup(World, username)), after,
                             ret'.userMessage, ret'.text)]_vars

\* an unclear answer at occupancy has just been asked about again
UnclearAtOccupancy ==
    /\ ret.op = "chat"
    /\ \E state \in Copies(activeStates, graphStateFiles, ret.username) :
          /\ state.currentNode = "occupancy"
          /\ "occupancy" \notin DOMAIN state.answers
          /\ IsUnclear(Extraction(state, ret.userMessage))
          /\ Len(state.messages) > 2
          /\ state.messages[Len(state.messages) - 1]
                = Message("human", ret.userMessage)
          /\ state.messages[Len(state.messages)] = Message("ai", ret.text)
          /\ ret.text # QUESTIONS["occupancy"]

\* -- C2 ------------------------------------------------------------------

\* the transition table: the branch points, then the single-successor edges
TransitionTable(node, interestedInSelling, hasOtherProperty, isTenantOccupied, isAnnualLease) ==
    CASE node = "initial_interest" /\ interestedInSelling = Some(TRUE) -> "price_range"
      [] node = "initial_interest" /\ interestedInSelling = Some(FALSE) -> "other_property"
      [] node = "initial_interest" /\ interestedInSelling = Null -> "initial_interest"
      [] node = "other_property" /\ hasOtherProperty = Some(TRUE) -> "price_range"
      [] node = "other_property" /\ hasOtherProperty # Some(TRUE) -> "closing"
      [] node = "occupancy" /\ isTenantOccupied = Some(TRUE) -> "lease_type"
      [] node = "occupancy" /\ isTenantOccupied # Some(TRUE) -> "selling_reason"
      [] node = "lease_type" /\ isAnnualLease = Some(TRUE) -> "lease_expiry"
      [] node = "lease_type" /\ isAnnualLease # Some(TRUE) -> "selling_reason"
      [] node = "closing" -> "end"
      [] node = "price_range" -> "bedrooms_bathrooms"
      [] node = "bedrooms_bathrooms" -> "kitchen_updates"
      [] node = "kitchen_updates" -> "property_condition"
      [] node = "property_condition" -> "occupancy"
      [] node = "lease_expiry" -> "selling_reason"
      [] node = "selling_reason" -> "collect_email"
      [] node = "collect_email" -> "closing"

TableNodes == ConversationNode \ {"start", "end"}

TableEntry(state) ==
    TransitionTable(state.currentNode, state.interestedInSelling,
                    state.hasOtherProperty, state.isTenantOccupied,
                    state.isAnnualLease)

\* C2: at every node of the table and for every value (true, false,
\* unknown) of the four flags, determineNextNode gives the node the table
\* gives, whatever the other fields of the state hold.
DetermineNextNodeIsTable ==
    ret.op = "determineNextNode" /\ Get(ret.state).currentNode \in TableNodes
        => ret.text = <<TableEntry(Get(ret.state))>>

\* an annual lease leads to the question of its expiry
AnnualLeaseToExpiry ==
    /\ ret.op = "determineNextNode"
    /\ Get(ret.state).currentNode = "lease_type"
    /\ Get(ret.state).isAnnualLease = Some(TRUE)
    /\ Get(ret.state).email # Null
    /\ ret.text = <<"lease_expiry">>

\* -- C3 ------------------------------------------------------------------

\* C3: a chat call for a conversation that is complete returns the fixed
\* ended message and changes nothing: the state found for the username,
\* the state files and the log files are the same after the call.
CompleteConversationIsFrozen ==
    [][\A username \in Usernames :
          ChatStep(username) /\ Complete(lookup(World, username))
            => /\ ~ret'.threw
               /\ ret'.text = EndedMessage
               /\ lookup(World', username) = lookup(World, username)
               /\ graphStateFiles' = graphStateFiles
               /\ logFiles' = logFiles]_vars

\* a complete conversation, found in its file after a restart, has been
\* told that it has ended
EndedAgain ==
    /\ ret.op = "chat"
    /\ ret.text = EndedMessage
    /\ ret.userMessage = <<"h","i">>
    /\ Complete(lookup(World, ret.username))
    /\ ret.username \in DOMAIN activeStates
    /\ "logPath" \in DOMAIN activeStates[ret.username]

\* -- C4 ------------------------------------------------------------------

RootState(state, username) ==
    /\ state.username = username
    /\ state.currentNode = "initial_interest"
    /\ state.isComplete = FALSE
    /\ state.answers = EmptyMap
    /\ state.extractedAnswers = EmptyMap
    /\ state.interestedInSelling = Null
    /\ state.hasOtherProperty = Null
    /\ state.isTenantOccupied = Null
    /\ state.isAnnualLease = Null
    /\ state.email = Null
    /\ state.messages = <<Message("ai", QUESTIONS["initial_interest"])>>

\* C4: a chat call for a username with no state in the map and no state
\* file returns the initial_interest question as it is written, whatever
\* the message and the backend, leaves the root state in the map and in
\* the file (nothing answered, nothing extracted, every flag unknown, the
\* question alone in the transcript) and logs no turn.
FirstChatAsksRootQuestion ==
    [][\A username \in Usernames :
          ChatStep(username) /\ lookup(World, username) = Null
            => /\ ~ret'.threw
               /\ ret'.text = QUESTIONS["initial_interest"]
               /\ username \in DOMAIN activeStates'
               /\ Persisted(graphStateFiles', username) # Null
               /\ \A state \in Copies(activeStates', graphStateFiles', username) :
                     RootState(state, username)
               /\ logFiles' = logFiles]_vars

\* a first message that would be an answer has been met by the question
FirstMessageNotAnswered ==
    /\ ret.op = "chat"
    /\ ret.userMessage = <<"y","e","s">>
    /\ ret.text = QUESTIONS["initial_interest"]
    /\ Persisted(graphStateFiles, ret.username) # Null
    /\ RootState(Get(Persisted(graphStateFiles, ret.username)), ret.username)

\* -- C5 ------------------------------------------------------------------

\* a log of an earlier conversation of username records its completion
CompletedBefore(username) ==
    \E logPath \in DOMAIN logFiles :
        /\ Persisted(graphStateFiles, username) # Null
        /\ logPath # Get(Persisted(graphStateFiles, username)).logPath
        /\ \E i \in 1..Len(logFiles[logPath]) :
              /\ logFiles[logPath][i].kind = "summary"
              /\ logFiles[logPath][i].username = username
              /\ logFiles[logPath][i].isComplete

\* C5: resetConversation(username) leaves no state of the username in the
\* map and no state file, whatever the conversation had reached; the chat
\* call that follows it for the username returns the initial_interest
\* question and leaves the root state in the map and in the file.
ResetStartsAfresh ==
    [][\A username \in Usernames :
          /\ ResetStep(username)
               => /\ username \notin DOMAIN activeStates'
                  /\ Persisted(graphStateFiles', username) = Null
                  /\ lookup(World', username) = Null
          /\ ret.op = "reset" /\ ret.username = username /\ ChatStep(username)
               => /\ ret'.text = QUESTIONS["initial_interest"]
                  /\ Persisted(graphStateFiles', username) # Null
                  /\ \A state \in Copies(activeStates', graphStateFiles', username) :
                        RootState(state, username)]_vars

\* a conversation was completed and reset, and the chat after it was
\* answered with the first question
FreshAfterCompletion ==
    /\ ret.op = "chat"
    /\ ret.text = QUESTIONS["initial_interest"]
    /\ CompletedBefore(ret.username)
    /\ RootState(Get(Persisted(graphStateFiles, ret.username)), ret.username)
    /\ ret.username \in DOMAIN activeStates

\* -- C6 ------------------------------------------------------------------

\* a conversation as its fields, the path of its log aside
Conversation(found) ==
    IF found = Null THEN Null
    ELSE Some([field \in DOMAIN Get(found) \ {"logPath"} |-> Get(found)[field]])

SameIdentity(username, other) ==
    sanitizeUsername(username) = sanitizeUsername(other)

\* C6: two usernames with the same sanitized name find one and the same
\* conversation after every call, and a chat through one of them right
\* after a reset through the other starts at the root question.
AliasesShareConversation ==
    [][\A username, other \in AliasUsernames :
          SameIdentity(username, other)
            => /\ Conversation(getConversationState(World', username))
                    = Conversation(getConversationState(World', other))
               /\ ret.op = "reset" /\ ret.username = other /\ ChatStep(username)
                    => ret'.text = QUESTIONS["initial_interest"]]_vars

\* -- C7 ------------------------------------------------------------------

\* the conversation found is at node and its validator classifies the
\* message as the given text
AnswersAt(found, node, userMessage, classified) ==
    /\ InProgress(found)
    /\ Get(found).currentNode = node
    /\ Extraction(Get(found), userMessage).type = "string"
    /\ Extraction(Get(found), userMessage).v = classified

\* C7: after a chat turn at initial_interest whose message is classified
\* "yes", the state file (and the state in the map) has currentNode =
\* price_range and interestedInSelling = true.
YesLeadsToPriceRange ==
    [][\A username \in Usernames :
          ChatStep(username)
            /\ AnswersAt(lookup(World, username), "initial_interest",
                         ret'.userMessage, <<"yes">>)
            => /\ Persisted(graphStateFiles', username) # Null
               /\ \A state \in Copies(activeStates', graphStateFiles', username) :
                     /\ state.currentNode = "price_range"
                     /\ state.interestedInSelling = Some(TRUE)]_vars

\* "yes" was answered and the price range is asked for
AskedPriceRangeAfterYes ==
    /\ ret.op = "chat"
    /\ ret.userMessage = <<"y","e","s">>
    /\ Persisted(graphStateFiles, ret.username) # Null
    /\ Get(Persisted(graphStateFiles, ret.username)).currentNode = "price_range"
    /\ Get(Persisted(graphStateFiles, ret.username)).answers
          = Put(EmptyMap, "initial_interest", <<"y","e","s">>)
    /\ Get(Persisted(graphStateFiles, ret.username)).interestedInSelling = Some(TRUE)

\* -- C8 ------------------------------------------------------------------

\* C8: after a chat turn at initial_interest whose message is classified
\* "no", the state file (and the state in the map) has currentNode =
\* other_property and interestedInSelling = false, not unknown.
NoLeadsToOtherProperty ==
    [][\A username \in Usernames :
          ChatStep(username)
            /\ AnswersAt(lookup(World, username), "initial_interest",
                         ret'.userMessage, <<"no">>)
            => /\ Persisted(graphStateFiles', username) # Null
               /\ \A state \in Copies(activeStates', graphStateFiles', username) :
                     /\ state.currentNode = "other_property"
                     /\ state.interestedInSelling = Some(FALSE)]_vars

\* "no" was answered and another property is asked about
AskedOtherPropertyAfterNo ==
    /\ ret.op = "chat"
    /\ ret.userMessage = <<"n","o">>
    /\ Persisted(graphStateFiles, ret.username) # Null
    /\ Get(Persisted(graphStateFiles, ret.username)).currentNode = "other_property"
    /\ Get(Persisted(graphStateFiles, ret.username)).answers
          = Put(EmptyMap, "initial_interest", <<"n","o">>)
    /\ Get(Persisted(graphStateFiles, ret.username)).interestedInSelling = Some(FALSE)

\* -- C9 ------------------------------------------------------------------

Terminal == {"closing", "end"}

\* C9: every state file has isComplete = true exactly when its currentNode
\* is closing or end, and a chat call for a conversation at such a node
\* extracts nothing and follows no edge: currentNode, answers and
\* extractedAnswers stay, and no turn is logged.
CompleteExactlyAtTerminal ==
    [][/\ \A path \in DOMAIN graphStateFiles' :
             graphStateFiles'[path].isComplete
                <=> graphStateFiles'[path].currentNode \in Terminal
       /\ \A username \in Usernames :
             ChatStep(username)
               /\ lookup(World, username) # Null
               /\ Get(lookup(World, username)).currentNode \in Terminal
               => /\ logFiles' = logFiles
                  /\ \A field \in {"currentNode", "answers", "extractedAnswers"} :
                        Get(lookup(World', username))[field]
                           = Get(lookup(World, username))[field]]_vars

\* the conversation is complete at closing after the email was given
CompleteAtClosing ==
    \E path \in DOMAIN graphStateFiles :
        /\ graphStateFiles[path].isComplete
        /\ graphStateFiles[path].currentNode = "closing"
        /\ "collect_email" \in DOMAIN graphStateFiles[path].answers
        /\ ret.op = "chat"
        /\ ret.text = EndedMessage

\* -- C10 -----------------------------------------------------------------

\* the original statement of C10: the chat call that sets isComplete is a
\* call for a conversation whose currentNode is closing, and it follows
\* the edge from closing to end.
CompletedByAnsweringClosing ==
    [][\A username \in Usernames :
          ChatStep(username)
            /\ InProgress(lookup(World, username))
            /\ Complete(lookup(World', username))
            => /\ Get(lookup(World, username)).currentNode = "closing"
               /\ Get(lookup(World', username)).currentNode = "end"]_vars

\* C10 (amended): the chat turn whose transition reaches closing sets
\* isComplete = true itself and returns the thank-you message: the closing
\* question is not asked, closing is not answered and the edge to end is
\* not followed; every chat call after it returns the fixed ended message
\* and leaves currentNode at closing.
CompletedOnReachingClosing ==
    [][\A username \in Usernames :
          /\ ChatStep(username) /\ InProgress(lookup(World, username))
               => /\ Get(lookup(World, username)).currentNode # "closing"
                  /\ Get(lookup(World', username)).currentNode = "closing"
                       => /\ Get(lookup(World', username)).isComplete
                          /\ ret'.text = ThankYouMessage
                          /\ "closing" \notin DOMAIN Get(lookup(World', username)).answers
          /\ ChatStep(username) /\ Complete(lookup(World, username))
               => /\ ret'.text = EndedMessage
                  /\ Get(lookup(World', username)).currentNode = "closing"]_vars

\* a conversation that was thanked on reaching closing is told it has ended
EndedAtClosing ==
    /\ ret.op = "chat"
    /\ ret.text = EndedMessage
    /\ ret.userMessage = <<"y","e","s">>
    /\ Complete(lookup(World, ret.username))
    /\ Get(lookup(World, ret.username)).currentNode = "closing"
    /\ "closing" \notin DOMAIN Get(lookup(World, ret.username)).answers
    /\ lastMessage(Get(lookup(World, ret.username))) = ThankYouMessage


\* -- C11 -----------------------------------------------------------------

\* what loadGraphState reads after saveGraphState has written the state
ReadBack(state) ==
    loadGraphState(saveGraphState(World.store, state, clock), state.username)

\* C11: a state that is saved and loaded again is the same state in every
\* field (currentNode, the flags, answers, extractedAnswers, isComplete and
\* the transcript in order), so that the state a chat call finds after a
\* restart is the state the conversation had before it.
SavedStateIsReadBack ==
    [][/\ \A username \in DOMAIN activeStates' :
             Conversation(ReadBack(activeStates[username])')
                = Conversation(Some(activeStates'[username]))
       /\ ret'.op = "restart"
             => \A username \in DOMAIN activeStates :
                   Conversation(lookup(World', username))
                      = Conversation(Some(activeStates[username]))]_vars

\* the fields a restart keeps whatever was said
KeptByRestart(found) ==
    IF found = Null THEN Null
    ELSE Some([field \in DOMAIN Get(found) \ {"logPath", "extractedAnswers"}
                 |-> Get(found)[field]])

\* after a restart the conversation is found at the node, with the flags,
\* answers and transcript it had
RestartKeepsConversation ==
    [][ret'.op = "restart"
         => \A username \in DOMAIN activeStates :
               KeptByRestart(lookup(World', username))
                  = KeptByRestart(Some(activeStates[username]))]_vars

\* -- C12 -----------------------------------------------------------------

\* C12: whenever a chat or reset call has returned, every state held in
\* the map equals the state persisted for its identity, so that emptying
\* the map changes nothing for the calls that follow.
CacheIsWriteThrough ==
    [][ret'.op \in {"chat", "reset"} /\ ~ret'.threw
         => \A username \in DOMAIN activeStates' :
               Conversation(Some(activeStates'[username]))
                  = Conversation(loadGraphState(World'.store, username))]_vars

\* -- C13 -----------------------------------------------------------------

\* C13: a chat turn that does not run to completion (its exception reaches
\* the caller) leaves the state the next call will find, in the map and in
\* the file, as it was before the turn, so that the message can be sent
\* again as if for the first time.
UnfinishedTurnChangesNothing ==
    [][\A username \in Usernames :
          ChatStep(username) /\ ret'.threw
            => /\ activeStates' = activeStates
               /\ graphStateFiles' = graphStateFiles
               /\ lookup(World', username) = lookup(World, username)]_vars

\* -- C14 -----------------------------------------------------------------

\* the texts chat returns: a question, a clarification, the closing text or
\* the ended message, literal or reworded by the backend (never empty)
Coherent(text) == text # <<>>

\* C14: chat never fails towards its caller: whatever fails during the
\* turn (the completion backend, a read or a write of the state store, the
\* log), the call returns a text.
ChatAlwaysReturnsText ==
    [][\A username \in Usernames :
          ChatStep(username) => ~ret'.threw /\ Coherent(ret'.text)]_vars

\* -- C15 -----------------------------------------------------------------

\* the state file of username cannot be parsed, or lacks required fields
Damaged(files, username) ==
    /\ Persisted(files, username) # Null
    /\ \/ Get(Persisted(files, username)) = Unparsable
       \/ ~Has(Get(Persisted(files, username)), "messages")
       \/ ~Has(Get(Persisted(files, username)), "currentNode")

\* the chat call has begun a conversation at the root
StartedAfresh(username) ==
    /\ ~ret'.threw
    /\ ret'.text = QUESTIONS["initial_interest"]
    /\ Copies(activeStates', graphStateFiles', username) # {}
    /\ \A state \in Copies(activeStates', graphStateFiles', username) :
          Has(state, "messages") /\ RootState(state, username)

\* C15: a state file that cannot be parsed, or that parses to an object
\* without required fields (messages, currentNode), is treated as absent:
\* the chat call that reads it does not fail and begins a conversation at
\* the root.
DamagedStateIsAbsent ==
    [][\A username \in Usernames :
          ChatStep(username) /\ username \notin DOMAIN activeStates
            /\ Damaged(graphStateFiles, username)
            => StartedAfresh(username)]_vars

\* a state file that cannot be parsed is treated as absent
UnparsableStateIsAbsent ==
    [][\A username \in Usernames :
          ChatStep(username) /\ username \notin DOMAIN activeStates
            /\ Persisted(graphStateFiles, username) = Some(Unparsable)
            => StartedAfresh(username)]_vars

\* a conversation was begun again over a file that could not be parsed
BegunOverUnparsable ==
    /\ ret.op = "chat" /\ ~ret.threw
    /\ ret.text = QUESTIONS["initial_interest"]
    /\ clock = 2

\* -- C16 -----------------------------------------------------------------

\* the log files of username
LogsOf(logs, username) ==
    [logPath \in {l \in DOMAIN logs : l.name = sanitizeUsername(username)}
       |-> logs[logPath]]

\* what a world holds for username: the entry of the map, the state file
\* and the log files
Part(world, username) ==
    [cached |-> IF username \in DOMAIN world.activeStates
                THEN Some(world.activeStates[username]) ELSE Null,
     file |-> Persisted(world.store.files, username),
     logs |-> LogsOf(world.store.logs, username)]

\* the world in which only username has ever called
Only(world, username) ==
    [activeStates |->
        [u \in DOMAIN world.activeStates \cap {username} |-> world.activeStates[u]],
     store |->
        [world.store EXCEPT
           !.files = [f \in DOMAIN @ \cap {getGraphStatePath(username)} |-> @[f]],
           !.logs = LogsOf(@, username)]]

\* the chat call of the step gives what it gives in the world `alone`
AsIfAlone(username, alone) ==
    \E outcome \in LLMOutcomes, now \in Times(alone, username) :
        With(chat(alone, username, ret'.userMessage, outcome, "ok", now),
             LAMBDA result :
                /\ result.threw = ret'.threw
                /\ result.text = ret'.text
                /\ Part(result.world, username) = Part(World', username))

\* C16: calls for different identities do not affect each other: a chat or
\* reset call for one username leaves everything held for the other as it
\* is, and a chat call returns the text and leaves the state, transcript
\* and log it would with the other username's calls never made.
IdentitiesAreIndependent ==
    [][\A username, other \in PairUsernames :
          ~SameIdentity(username, other)
            => /\ ret'.op \in {"chat", "reset"} /\ ret'.username = other
                    => Part(World', username) = Part(World, username)
               /\ ChatStep(username)
                    => AsIfAlone(username, Only(World, username))]_vars

\* both homeowners are in a conversation, at different nodes
BothInConversation ==
    /\ ret.op = "chat"
    /\ <<"a"," ","b">> \in DOMAIN activeStates /\ <<"c">> \in DOMAIN activeStates
    /\ activeStates[<<"a"," ","b">>].currentNode = "price_range"
    /\ activeStates[<<"c">>].currentNode = "other_property"
    /\ Persisted(graphStateFiles, <<"a"," ","b">>) # Persisted(graphStateFiles, <<"c">>)
    /\ Persisted(graphStateFiles, <<"c">>) # Null

\* -- C17 -----------------------------------------------------------------

\* the step ends a group of two chat calls that ran at the same time
GroupReturns ==
    /\ DOMAIN pending' = {1, 2}
    /\ \A id \in DOMAIN pending' : pending'[id].at = "done"
    /\ DOMAIN pending = {1, 2}

\* the world after chat(username, userMessage) has run alone
After(world, username, userMessage, outcome) ==
    chat(world, username, userMessage, outcome, "ok", world.store.clock).world

\* what is recorded in a conversation: its node, flags, answers and
\* extracted values, the transcript and the last message aside
Recorded(found) ==
    IF found = Null THEN Null
    ELSE Some([field \in DOMAIN Get(found) \ {"logPath", "messages", "lastResponse"}
                 |-> Get(found)[field]])

\* what is recorded in the conversation persisted in a world
PersistedIn(world, username) ==
    Recorded(Persisted(world.store.files, username))

\* what may be persisted when one of two calls runs alone, from the state
\* before both or from the state the other call leaves
OneAfterTheOther(base, username, first, second) ==
    UNION {{PersistedIn(After(base, username, first, o1), username),
            PersistedIn(After(After(base, username, first, o1),
                              username, second, o2), username)}
              : o1 \in LLMOutcomes, o2 \in LLMOutcomes}

\* C17: when two chat calls for one username run at the same time, the
\* node, flags, answers and extracted values persisted once both have
\* returned are those one of them leaves when it runs alone, before or
\* after the other (last write wins), and not a mixture of both.
OverlapIsLastWriteWins ==
    [][GroupReturns
         => PersistedIn(World', pending'[1].username)
               \in OneAfterTheOther(pending'[1].base, pending'[1].username,
                                    pending'[1].userMessage,
                                    pending'[2].userMessage)
                   \cup OneAfterTheOther(pending'[1].base, pending'[1].username,
                                         pending'[2].userMessage,
                                         pending'[1].userMessage)]_vars

\* every extracted value is recorded under the node that extracted it
\* from the answer recorded there
RecordedUnderOwnNode(state) ==
    \A node \in DOMAIN state.extractedAnswers :
        /\ node \in DOMAIN state.answers
        /\ state.extractedAnswers[node]
              = jsonValue(processed(node, [lastResponse |-> state.answers[node]])
                            .extractedValue)

\* no state file holds an answer under a node that did not extract it
AnswersUnderOwnNode ==
    \A path \in DOMAIN graphStateFiles :
        Has(graphStateFiles[path], "messages")
            => RecordedUnderOwnNode(graphStateFiles[path])

\* a call that runs with no other call in flight returns what chat gives
\* in one step
AloneIsChat ==
    [][(DOMAIN pending' = {1} /\ pending'[1].at = "done" /\ DOMAIN pending = {1})
          => \E outcome \in LLMOutcomes,
                now \in Times(pending'[1].base, pending'[1].username) :
                  chat(pending'[1].base, pending'[1].username,
                       pending'[1].userMessage, outcome, "ok", now).world = World']_vars

\* -- C18 -----------------------------------------------------------------

\* the conversation found goes on and its node takes the message as an
\* answer
ValidTurn(found, userMessage) ==
    InProgress(found) /\ ~IsUnclear(Extraction(Get(found), userMessage))

\* after is before with the message and what the node of before extracts
\* from it recorded under that node, and nothing else recorded or dropped
RecordedUnder(before, after, userMessage) ==
    /\ after.answers = Put(before.answers, before.currentNode, userMessage)
    /\ after.extractedAnswers
          = Put(before.extractedAnswers, before.currentNode,
                Extraction(before, userMessage))

\* C18: a chat turn whose message the current node n takes as an answer
\* leaves answers[n] = the message and extractedAnswers[n] = the value
\* extracted, n being the node of the state the turn started from, and
\* every other entry of answers and extractedAnswers as it was, in the map
\* and in the file.
AnswerRecordedUnderPreviousNode ==
    [][\A username \in Usernames :
          ChatStep(username) /\ ValidTurn(lookup(World, username), ret'.userMessage)
            => /\ ~ret'.threw
               /\ username \in DOMAIN activeStates'
               /\ Persisted(graphStateFiles', username) # Null
               /\ \A after \in Copies(activeStates', graphStateFiles', username) :
                     RecordedUnder(Get(lookup(World, username)), after,
                                   ret'.userMessage)]_vars

\* the price range has just been answered: it is recorded under
\* price_range, next to the earlier answer, and the conversation is at
\* bedrooms_bathrooms, under which nothing is recorded
PriceRangeRecorded ==
    /\ ret.op = "chat"
    /\ Persisted(graphStateFiles, ret.username) # Null
    /\ With(Get(Persisted(graphStateFiles, ret.username)), LAMBDA state :
          /\ state.currentNode = "bedrooms_bathrooms"
          /\ DOMAIN state.answers = {"initial_interest", "price_range"}
          /\ DOMAIN state.extractedAnswers = {"initial_interest", "price_range"}
          /\ state.answers["price_range"] = ret.userMessage
          /\ state.extractedAnswers["price_range"]
                = Extraction([currentNode |-> "price_range"], ret.userMessage)
          /\ ~IsUnclear(state.extractedAnswers["price_range"]))

\* -- C19 -----------------------------------------------------------------

IsTurn(line) == line.kind = "turn"

\* the lines of a log that record a turn
Turns(log) == SelectSeq(log, IsTurn)

\* the lines of the log file at path, none when there is no such file
LogAt(logs, path) == IF path \in DOMAIN logs THEN logs[path] ELSE <<>>

\* the step appends to the log at path, and among the lines appended is
\* exactly one turn: that of userMessage at node, leading to nextNode
AppendsTurn(path, node, nextNode, userMessage) ==
    /\ SubSeq(logFiles'[path], 1, Len(LogAt(logFiles, path))) = LogAt(logFiles, path)
    /\ Len(Turns(logFiles'[path])) = Len(Turns(LogAt(logFiles, path))) + 1
    /\ With(Turns(logFiles'[path])[Len(Turns(logFiles'[path]))], LAMBDA line :
          /\ line.node = node
          /\ line.nextNode = nextNode
          /\ line.userResponse = userMessage)

\* the step logs one turn, in one log file, and leaves the other files
OneTurnLogged(node, nextNode, userMessage) ==
    \E path \in DOMAIN logFiles' :
        /\ AppendsTurn(path, node, nextNode, userMessage)
        /\ \A other \in (DOMAIN logFiles \cup DOMAIN logFiles') \ {path} :
              LogAt(logFiles', other) = LogAt(logFiles, other)

\* C19: every chat turn on a conversation that exists and is not complete
\* appends exactly one turn line to the log; its node is the node of the
\* conversation when the turn started and its next node is the currentNode
\* the turn persisted (the same node when the turn asked again).
EachTurnLoggedOnce ==
    [][\A username \in Usernames :
          ChatStep(username) /\ InProgress(lookup(World, username))
            => /\ ~ret'.threw
               /\ Persisted(graphStateFiles', username) # Null
               /\ OneTurnLogged(Get(lookup(World, username)).currentNode,
                                Get(Persisted(graphStateFiles', username)).currentNode,
                                ret'.userMessage)]_vars

\* a log whose last two turns are an unclear answer at price_range, which
\* stayed there, and an answer that led on to bedrooms_bathrooms, where the
\* persisted conversation is
LoggedReaskThenAdvance ==
    /\ ret.op = "chat"
    /\ Persisted(graphStateFiles, ret.username) # Null
    /\ Get(Persisted(graphStateFiles, ret.username)).currentNode = "bedrooms_bathrooms"
    /\ \E path \in DOMAIN logFiles :
          With(Turns(logFiles[path]), LAMBDA turns :
             /\ Len(turns) >= 2
             /\ turns[Len(turns) - 1].node = "price_range"
             /\ turns[Len(turns) - 1].nextNode = "price_range"
             /\ turns[Len(turns)].node = "price_range"
             /\ turns[Len(turns)].nextNode = "bedrooms_bathrooms"
             /\ turns[Len(turns)].userResponse = ret.userMessage)

\* -- C20 -----------------------------------------------------------------

\* the world in which the appends of the given records fail
Failing(world, broken) == [world EXCEPT !.store.broken = broken]

\* both calls end the same way, return the same text and leave the same
\* cached states and state files
SameTurn(result, other) ==
    /\ result.threw = other.threw
    /\ result.text = other.text
    /\ result.world.activeStates = other.world.activeStates
    /\ result.world.store.files = other.world.store.files

\* C20: when the append of the turn line (appendGraphLog) or of the summary
\* (appendGraphSummary) fails, chat returns the text and leaves the cached
\* and the persisted state that the same call gives when the append
\* succeeds, and no exception reaches the caller.
LogFailureChangesNothing ==
    \A username \in Usernames, broken \in SUBSET LogRecords :
        \A userMessage \in Replies(NodeOf(World, username)),
           outcome \in LLMOutcomes, now \in Times(World, username) :
            /\ ~chat(Failing(World, broken), username, userMessage, outcome,
                     "ok", now).threw
            /\ SameTurn(chat(Failing(World, broken), username, userMessage,
                             outcome, "ok", now),
                        chat(World, username, userMessage, outcome, "ok", now))

\* a chat call has answered the first question and asked for the price
\* range although its turn line could not be written: no log holds a turn
AnsweredButNotLogged ==
    /\ ret.op = "chat"
    /\ ~ret.threw
    /\ ret.text # <<>>
    /\ Persisted(graphStateFiles, ret.username) # Null
    /\ Get(Persisted(graphStateFiles, ret.username)).currentNode = "price_range"
    /\ Get(Persisted(graphStateFiles, ret.username)).answers
          = Put(EmptyMap, "initial_interest", ret.userMessage)
    /\ \A path \in DOMAIN logFiles : Turns(logFiles[path]) = <<>>

\* -- C21 -----------------------------------------------------------------

\* the transcript chat finds for username, empty when there is no state
TranscriptOf(world, username) ==
    IF lookup(world, username) = Null THEN <<>>
    ELSE Get(lookup(world, username)).messages

IsPrefix(s, t) == Len(s) <= Len(t) /\ SubSeq(t, 1, Len(s)) = s

\* C21: no step but a reset shortens or rewrites the transcript (the
\* transcript before is a prefix of the transcript after), and a chat turn
\* on a conversation that is not complete appends exactly the message and
\* then the text chat returns, in the map and in the file.
TranscriptIsAppendOnly ==
    [][\A username \in Usernames :
          /\ ~ResetStep(username)
               => IsPrefix(TranscriptOf(World, username), TranscriptOf(World', username))
          /\ ChatStep(username) /\ InProgress(lookup(World, username))
               => /\ ~ret'.threw
                  /\ Persisted(graphStateFiles', username) # Null
                  /\ \A after \in Copies(activeStates', graphStateFiles', username) :
                        after.messages
                          = TranscriptOf(World, username)
                              \o <<Message("human", ret'.userMessage),
                                   Message("ai", ret'.text)>>]_vars

\* a transcript of three turns: the opening question, then twice a message
\* and the reply, the last reply being the text just returned
TranscriptOfTwoTurns ==
    /\ ret.op = "chat"
    /\ Persisted(graphStateFiles, ret.username) # Null
    /\ With(Get(Persisted(graphStateFiles, ret.username)).messages, LAMBDA messages :
          /\ Len(messages) = 5
          /\ messages[1] = Message("ai", QUESTIONS["initial_interest"])
          /\ messages[2].role = "human" /\ messages[3].role = "ai"
          /\ messages[4] = Message("human", ret.userMessage)
          /\ messages[5] = Message("ai", ret.text))

\* -- C22 -----------------------------------------------------------------

\* what a chat call with userMessage leaves recorded in the state file
RecordedAfter(world, username, userMessage, outcome) ==
    Recorded(Persisted(chat(world, username, userMessage, outcome, "ok",
                            world.store.clock).world.store.files,
                       username))

\* the unclear answers given since the last answer that was taken
Repeated(state) ==
    Cardinality({i \in 1..Len(state.messages) : state.messages[i].role = "human"})
        - Cardinality(DOMAIN state.answers)

\* C22: a chat turn whose message is unclear, whether it is the first or
\* comes after other unclear ones, leaves currentNode, flags, answers and
\* extractedAnswers as they were and the conversation incomplete, and
\* every message answered next gives the node, flags, answers and
\* extracted values it would have given in place of the unclear one.
ClarificationLoopKeepsPosition ==
    [][\A username \in Usernames :
          ChatStep(username) /\ UnclearTurn(lookup(World, username), ret'.userMessage)
            => /\ Persisted(graphStateFiles', username) # Null
               /\ \A after \in Copies(activeStates', graphStateFiles', username) :
                     /\ \A field \in KeptWhenUnclear :
                           after[field] = Get(lookup(World, username))[field]
                     /\ ~after.isComplete
               /\ \A userMessage \in Replies(NodeOf(World, username)),
                     outcome \in LLMOutcomes :
                       RecordedAfter(World', username, userMessage, outcome)
                         = RecordedAfter(World, username, userMessage, outcome)]_vars

\* the price range was given after three unclear answers in a row, and the
\* conversation went on to bedrooms_bathrooms
AnsweredAfterThreeUnclear ==
    /\ ret.op = "chat"
    /\ Persisted(graphStateFiles, ret.username) # Null
    /\ Get(Persisted(graphStateFiles, ret.username)).currentNode = "bedrooms_bathrooms"
    /\ Repeated(Get(Persisted(graphStateFiles, ret.username))) = 3
    /\ \E path \in DOMAIN logFiles :
          With(Turns(logFiles[path]), LAMBDA turns :
             /\ Len(turns) = 5
             /\ \A i \in 2..5 : turns[i].node = "price_range"
             /\ \A i \in 2..4 : turns[i].nextNode = "price_range"
             /\ turns[5].nextNode = "bedrooms_bathrooms")

\* -- C23 -----------------------------------------------------------------

Flags ==
    {"interestedInSelling", "hasOtherProperty", "isTenantOccupied",
     "isAnnualLease", "email"}

\* the flag derived from the answer of a node ("none" for the nodes whose
\* answer gives no flag)
FlagOf(node) ==
    CASE node = "initial_interest" -> "interestedInSelling"
      [] node = "other_property" -> "hasOtherProperty"
      [] node = "occupancy" -> "isTenantOccupied"
      [] node = "lease_type" -> "isAnnualLease"
      [] node = "collect_email" -> "email"
      [] OTHER -> "none"

\* after has the flags of before, but for the flag of the node of before
FlagsFramed(before, after) ==
    \A flag \in Flags \ {FlagOf(before.currentNode)} : after[flag] = before[flag]

\* the flags of before that are known have the same value in after
KnownFlagsKept(before, after) ==
    \A flag \in Flags : before[flag] # Null => after[flag] = before[flag]

\* C23: a chat turn whose message the node n takes as an answer changes no
\* flag but the one that belongs to n (none at a node without a flag), and
\* no step but a reset changes a flag that is known.
OnlyOwnFlagChanges ==
    [][\A username \in Usernames :
          /\ ChatStep(username) /\ ValidTurn(lookup(World, username), ret'.userMessage)
               => /\ Persisted(graphStateFiles', username) # Null
                  /\ \A after \in Copies(activeStates', graphStateFiles', username) :
                        FlagsFramed(Get(lookup(World, username)), after)
          /\ ~ResetStep(username) /\ lookup(World, username) # Null
               => /\ lookup(World', username) # Null
                  /\ \A after \in Copies(activeStates', graphStateFiles', username) :
                        KnownFlagsKept(Get(lookup(World, username)), after)]_vars

\* the occupancy was just answered: isTenantOccupied is known now,
\* interestedInSelling is as it was set at the first node, and the flags of
\* the nodes not visited are unknown
OccupancyFlagSet ==
    /\ ret.op = "chat"
    /\ Persisted(graphStateFiles, ret.username) # Null
    /\ With(Get(Persisted(graphStateFiles, ret.username)), LAMBDA state :
          /\ "occupancy" \in DOMAIN state.answers
          /\ state.answers["occupancy"] = ret.userMessage
          /\ state.isTenantOccupied # Null
          /\ state.interestedInSelling = Some(TRUE)
          /\ state.isAnnualLease = Null
          /\ state.email = Null)

\* -- C24 -----------------------------------------------------------------

LeaseNodes == {"lease_type", "lease_expiry"}

\* the answer at occupancy was extracted as "owner"
OwnerOccupied(state) ==
    /\ "occupancy" \in DOMAIN state.extractedAnswers
    /\ state.extractedAnswers["occupancy"] = StrV(<<"owner">>)

\* C24: the chat turn whose answer at occupancy is extracted as "owner"
\* leads to selling_reason, and a conversation with that answer is never
\* at lease_type or lease_expiry and holds no answer of these nodes, in
\* the map and in the file.
OwnerSkipsLeaseQuestions ==
    [][\A username \in Usernames :
          /\ ChatStep(username)
               /\ AnswersAt(lookup(World, username), "occupancy",
                            ret'.userMessage, <<"owner">>)
               => /\ Persisted(graphStateFiles', username) # Null
                  /\ \A after \in Copies(activeStates', graphStateFiles', username) :
                        after.currentNode = "selling_reason"
          /\ \A after \in Copies(activeStates', graphStateFiles', username) :
                OwnerOccupied(after)
                  => /\ after.currentNode \notin LeaseNodes
                     /\ DOMAIN after.answers \cap LeaseNodes = {}]_vars

\* an owner-occupied conversation that has gone on past selling_reason: the
\* email is asked for and no lease question was answered
OwnerAskedForEmail ==
    /\ ret.op = "chat"
    /\ Persisted(graphStateFiles, ret.username) # Null
    /\ With(Get(Persisted(graphStateFiles, ret.username)), LAMBDA state :
          /\ OwnerOccupied(state)
          /\ state.isTenantOccupied = Some(FALSE)
          /\ state.currentNode = "collect_email"
          /\ "selling_reason" \in DOMAIN state.answers
          /\ DOMAIN state.answers \cap LeaseNodes = {})

\* -- C25 -----------------------------------------------------------------

\* the literal text of the turn that leaves the conversation in state
\* `after`: the clarification of the node, the thank-you text, or the
\* question of the node reached
LiteralReply(before, after, userMessage) ==
    IF IsUnclear(Extraction(before, userMessage))
    THEN ClarificationOf(before, userMessage)
    ELSE IF after.isComplete THEN ThankYouMessage
    ELSE QUESTIONS[after.currentNode]

\* the state file of username after a chat call
PersistedBy(result, username) == Persisted(result.world.store.files, username)

\* C25: for every conversation in progress and every message, the chat
\* call during which the completion request fails does not throw, persists
\* the node, flags, answers and extracted values that the same call
\* persists when the request succeeds, and returns the literal
\* clarification or question of the node (the thank-you text at the end).
BackendFailureChangesNothing ==
    \A username \in Usernames :
        InProgress(lookup(World, username))
          => \A userMessage \in Replies(NodeOf(World, username)) :
               With(chat(World, username, userMessage, "error", "ok", clock),
                    LAMBDA failed :
                      /\ ~failed.threw
                      /\ PersistedBy(failed, username) # Null
                      /\ Recorded(PersistedBy(failed, username))
                           = Recorded(PersistedBy(chat(World, username, userMessage,
                                                       "text", "ok", clock),
                                                  username))
                      /\ failed.text
                           = LiteralReply(Get(lookup(World, username)),
                                          Get(PersistedBy(failed, username)),
                                          userMessage))

\* the first reply was worded by the backend; the second turn got the
\* literal question of the node reached, and the conversation went on
LiteralAfterParaphrase ==
    /\ ret.op = "chat"
    /\ Persisted(graphStateFiles, ret.username) # Null
    /\ With(Get(Persisted(graphStateFiles, ret.username)), LAMBDA state :
          /\ Len(state.messages) = 5
          /\ IsParaphrase(state.messages[3])
          /\ DOMAIN state.answers = {"initial_interest", "price_range"}
          /\ state.currentNode = "bedrooms_bathrooms"
          /\ state.messages[5] = Message("ai", QUESTIONS["bedrooms_bathrooms"])
          /\ ret.text = QUESTIONS["bedrooms_bathrooms"])

\* -- C26 -----------------------------------------------------------------

\* the range recorded for price_range in a state
PriceRecorded(state) == state.extractedAnswers["price_range"].v

\* C26: a chat turn at price_range whose message is a range "<A><suffix>
\* (-|to|and) <B><suffix>" records min = the value of A and max = the value
\* of B, and the conversation goes on to bedrooms_bathrooms.
RangeIsExtracted ==
    [][\A username \in Usernames, range \in RangeAnswers :
          (ChatStep(username) /\ ret'.userMessage = range.text
             /\ NodeOf(World, username) = "price_range")
            => \A after \in Copies(activeStates', graphStateFiles', username) :
                  /\ after.currentNode = "bedrooms_bathrooms"
                  /\ PriceRecorded(after).min = NumV(Num(range.min, 0))
                  /\ PriceRecorded(after).max = NumV(Num(range.max, 0))]_vars

\* such a turn records min = the value of A and goes on to
\* bedrooms_bathrooms
RangeLowerBoundIsExtracted ==
    [][\A username \in Usernames, range \in RangeAnswers :
          (ChatStep(username) /\ ret'.userMessage = range.text
             /\ NodeOf(World, username) = "price_range")
            => \A after \in Copies(activeStates', graphStateFiles', username) :
                  /\ after.currentNode = "bedrooms_bathrooms"
                  /\ PriceRecorded(after).min = NumV(Num(range.min, 0))]_vars

\* ... and its max is null, or the value of B negated
RangeUpperBoundIsLost ==
    [][\A username \in Usernames, range \in RangeAnswers :
          (ChatStep(username) /\ ret'.userMessage = range.text
             /\ NodeOf(World, username) = "price_range")
            => \A after \in Copies(activeStates', graphStateFiles', username) :
                  PriceRecorded(after).max \in {NullV, NumV(Num(0 - range.max, 0))}]_vars

\* -- C27 -----------------------------------------------------------------

PositiveKeywords ==
    {<<"y","e","s">>, <<"y","e","a","h">>, <<"s","u","r","e">>, <<"d","e","f","i","n","i","t","e","l","y">>, <<"a","b","s","o","l","u","t","e","l","y">>, <<"y","e","p">>, <<"y","u","p">>,
     <<"c","o","r","r","e","c","t">>, <<"r","i","g","h","t">>, <<"t","r","u","e">>, <<"i"," ","d","o">>, <<"i"," ","a","m">>, <<"i"," ","h","a","v","e">>}

NegativeKeywords ==
    {<<"n","o">>, <<"n","o","p","e">>, <<"n","o","t"," ","r","e","a","l","l","y">>, <<"n","e","v","e","r">>, <<"n","a","h">>, <<"n","e","g","a","t","i","v","e">>, <<"i"," ","d","o","n","'","t">>,
     <<"i"," ","h","a","v","e","n","'","t">>, <<"n","o","t"," ","y","e","t">>}

\* the character before position p and the character at p are one a word
\* character and the other not (the ends of s count as not)
BoundaryAt(s, p) ==
    ((p - 1) \in 1..Len(s) /\ s[p - 1] \in WordChars)
        # (p \in 1..Len(s) /\ s[p] \in WordChars)

\* the keyword stands in s between two word boundaries
OccursAsWord(keyword, s) ==
    \E i \in 1..(Len(s) - Len(keyword) + 1) :
        /\ SubSeq(s, i, i + Len(keyword) - 1) = keyword
        /\ BoundaryAt(s, i)
        /\ BoundaryAt(s, i + Len(keyword))

Mentions(keywords, response) ==
    \E keyword \in keywords : OccursAsWord(keyword, toLowerCase(response))

YesNoNodes == {"initial_interest", "other_property", "kitchen_updates"}

\* C27: validateYesNo gives "yes" exactly for the utterances with a
\* positive keyword between word boundaries, "no" exactly for those with a
\* negative and no positive keyword, and is invalid exactly for those with
\* neither; the three yes/no nodes extract what it gives.
YesNoIsKeywordMatch ==
    ret.op = "validateYesNo"
      => /\ (Get(ret.state) = Valid(StrV(<<"yes">>)))
              <=> Mentions(PositiveKeywords, ret.userMessage)
         /\ (Get(ret.state) = Valid(StrV(<<"no">>)))
              <=> (~Mentions(PositiveKeywords, ret.userMessage)
                     /\ Mentions(NegativeKeywords, ret.userMessage))
         /\ (~Get(ret.state).isValid)
              <=> (~Mentions(PositiveKeywords, ret.userMessage)
                     /\ ~Mentions(NegativeKeywords, ret.userMessage))
         /\ \A node \in YesNoNodes :
               Get(ret.state).isValid
                 => processCurrentNode(node, [lastResponse |-> ret.userMessage])
                       .extractedValue = Get(ret.state).extractedValue

\* an utterance with a negative and a positive keyword was classified "yes"
NegativeAndPositiveIsYes ==
    /\ ret.op = "validateYesNo"
    /\ ret.userMessage = <<"n","o",","," ","t","h","a","t"," ","i","s"," ","n","o","t"," ","r","i","g","h","t">>
    /\ Mentions(NegativeKeywords, ret.userMessage)
    /\ Get(ret.state) = Valid(StrV(<<"yes">>))

\* -- C28 -----------------------------------------------------------------

Alphanumeric == Letters \cup Range(DigitChars)

\* the characters sanitizeUsername keeps
KeptChars == Alphanumeric \cup {".", "_", "-"}

Blank(username) == \A i \in 1..Len(username) : username[i] \in Whitespace

\* the username without the whitespace at its ends
Core(username) ==
    IF Blank(username) THEN <<>>
    ELSE SubSeq(username,
                CHOOSE i \in 1..Len(username) :
                    /\ username[i] \notin Whitespace
                    /\ \A j \in 1..(i - 1) : username[j] \in Whitespace,
                CHOOSE i \in 1..Len(username) :
                    /\ username[i] \notin Whitespace
                    /\ \A j \in (i + 1)..Len(username) : username[j] \in Whitespace)

\* text is the first MaxUsernameLength characters of name, with "_" in
\* place of every character that is not one of kept
Replaced(text, name, kept) ==
    /\ Len(text) = Min(Len(name), MaxUsernameLength)
    /\ \A i \in 1..Len(text) :
          text[i] = (IF name[i] \in kept THEN name[i] ELSE "_")

\* C28: the sanitized form of a blank username is "anonymous"; of any
\* other username it is the username without the whitespace at its ends,
\* cut to 64 characters, with "_" in place of every character that is not
\* a letter, a digit, ".", "_" or "-"; it is never empty.
SanitizedKeepsSafeChars ==
    ret.op = "sanitizeUsername"
      => /\ ret.text # <<>>
         /\ Blank(ret.username) => ret.text = <<"a","n","o","n","y","m","o","u","s">>
         /\ ~Blank(ret.username)
              => Replaced(ret.text, Core(ret.username), KeptChars)

\* the statement with every non-alphanumeric character replaced
SanitizedIsAlphanumeric ==
    ret.op = "sanitizeUsername"
      => /\ ret.text # <<>>
         /\ Blank(ret.username) => ret.text = <<"a","n","o","n","y","m","o","u","s">>
         /\ ~Blank(ret.username)
              => Replaced(ret.text, Core(ret.username), Alphanumeric)

\* a username of more than 64 characters with a slash and a dot: the slash
\* became "_", the dot was kept, and the result has 64 characters
LongNameSanitized ==
    /\ ret.op = "sanitizeUsername"
    /\ Len(ret.username) > MaxUsernameLength
    /\ Len(ret.text) = MaxUsernameLength
    /\ \E i, j \in 1..MaxUsernameLength :
          /\ ret.username[i] = "/" /\ ret.text[i] = "_"
          /\ ret.username[j] = "." /\ ret.text[j] = "."

\* -- C29 ---------------------------------------------------------------------

\* the conversation data of a homeowner in the memory of the caller
ConversationDataOf(conversationData, username) ==
    conversationData[sanitizeUsername(username)]

\* the indices of questions after an index that are not to be skipped
Unskipped(skipQuestions, currentQuestionIndex) ==
    {i \in (currentQuestionIndex + 1)..(QuestionCount - 1) :
        \A k \in DOMAIN skipQuestions : skipQuestions[k] # i}

Least(indices) == CHOOSE i \in indices : \A j \in indices : i <= j

\* a call of chat that moved to the next question
MovedToNext(call) ==
    call.op = "callerChat" /\ Get(call.state) \in {"next", "closing"}

\* C29: a turn of the linear flow that takes the default path leaves
\* currentQuestionIndex at the smallest index of a question greater than the
\* index it found that is not in skipQuestions, and the question of that
\* index is what it asks; when there is no such index it leaves an index
\* that is at least questions.length and returns the closing thank-you.
DefaultPathTakesNextUnskipped ==
    [][\A username \in Usernames :
          MovedToNext(ret') /\ ret'.username = username
            => With(ConversationDataOf(activeStates', username), LAMBDA data :
               With(Unskipped(data.skipQuestions,
                              Get(IndexFound(CallerWorld, username))), LAMBDA unskipped :
                   IF unskipped # {}
                   THEN /\ data.currentQuestionIndex = Least(unskipped)
                        /\ ~ret'.threw
                             => ret'.text \in
                                  {callerFormatQuestion(Least(unskipped),
                                       QuestionText(Least(unskipped)), backend) :
                                     backend \in {"text", "empty"}}
                   ELSE /\ data.currentQuestionIndex >= QuestionCount
                        /\ ~ret'.threw
                        /\ ret'.text = <<"closing.thankYou">>))]_vars

\* the homeowner said "me" at Q15: Q16 and Q17 are skipped and Q18 is asked
OwnerMovedToReason ==
    /\ ret.op = "callerChat"
    /\ ret.userMessage = <<"m","e">>
    /\ ret.state = Some("next")
    /\ \E username \in Usernames :
          /\ ret.username = username
          /\ ConversationDataOf(activeStates, username).skipQuestions = <<16, 17>>
          /\ ConversationDataOf(activeStates, username).currentQuestionIndex = 18
    /\ ret.text = callerFormatQuestion(18, QuestionText(18), "text")

\* the closing of a conversation, and a message after it
ClosingReturned ==
    /\ ret.op = "callerChat"
    /\ ret.state = Some("closing")
    /\ ret.text = <<"closing.thankYou">>
    /\ \E username \in Usernames :
          ConversationDataOf(activeStates, username).currentQuestionIndex
            = QuestionCount + 1

\* -- C30 ---------------------------------------------------------------------

\* answers to Q16, "monthly or annual lease?"
MonthlyAnswers == {<<"m","o","n","t","h","l","y">>}

AnnualAnswers == {<<"a","n","n","u","a","l">>, <<"Y","e","a","r","l","y">>}

\* a call of chat that found the conversation at an index and took the
\* message as the answer to its question
AnsweredAt(idx, username) ==
    /\ IndexFound(CallerWorld, username) = Some(idx)
    /\ ret'.op = "callerChat"
    /\ ret'.username = username
    /\ ret'.state # Some("rebuttal")

\* C30: a monthly answer at Q16 skips Q17, so that the conversation goes on
\* at Q18; the conversation goes on at Q17 only after an annual answer at
\* Q16.
MonthlyLeaseSkipsExpiry ==
    [][\A username \in Usernames :
          AnsweredAt(16, username)
            => With(ConversationDataOf(activeStates', username).currentQuestionIndex, LAMBDA next :
                   /\ ret'.userMessage \in MonthlyAnswers => next = 18
                   /\ next = 17 => ret'.userMessage \in AnnualAnswers)]_vars

\* what the code does: whatever the answer at Q16, the conversation goes on
\* at Q17; after an annual answer with the text of the conditional flow,
\* after any other answer with the question "When will the lease expire?"
LeaseExpiryFollowsAnyLease ==
    [][\A username \in Usernames :
          AnsweredAt(16, username)
            => /\ ConversationDataOf(activeStates', username).currentQuestionIndex = 17
               /\ ~ret'.threw
               /\ ret'.text = IF ret'.userMessage \in AnnualAnswers
                              THEN <<"tenantOccupied.yes.annual">>
                              ELSE callerFormatQuestion(17, QuestionText(17), "text")]_vars

\* the conversation of a homeowner who said that tenants live in the
\* property and that their lease is monthly is at Q17
MonthlyTenantAskedForExpiry ==
    /\ ret.op = "callerChat"
    /\ ret.userMessage \in MonthlyAnswers
    /\ ret.text = callerFormatQuestion(17, QuestionText(17), "text")
    /\ \E username \in Usernames :
          With(ConversationDataOf(activeStates, username), LAMBDA data :
              /\ data.currentQuestionIndex = 17
              /\ 15 \in DOMAIN data.answers
              /\ data.answers[15] = <<"w","e"," ","r","e","n","t"," ","i","t"," ","o","u","t">>)

\* ------------------------------------------------------------------------
\* The linear flow, the turns of the graph under failures and overlap
\* ------------------------------------------------------------------------

\* -- C31 ---------------------------------------------------------------------

\* the conversation data chat(username, ...) will find, in the memory or,
\* after a restart, in the state file
DataFound(w, usernameRaw) ==
    With(sanitizeUsername(usernameRaw), LAMBDA username :
        IF hasMemory(w, username) THEN getConversationData(w, username)
        ELSE With(callerLoadConversationState(w, username), LAMBDA saved :
                 [currentQuestionIndex |-> Get(saved.currentQuestionIndex),
                  answers |-> saved.answers,
                  interestedInSelling |-> saved.interestedInSelling,
                  skipQuestions |-> saved.skipQuestions]))

\* the four fields of the state file of a homeowner
SavedData(files, usernameRaw) ==
    With(files[sanitizeUsername(usernameRaw)], LAMBDA saved :
        [currentQuestionIndex |-> Get(saved.currentQuestionIndex),
         answers |-> saved.answers,
         interestedInSelling |-> saved.interestedInSelling,
         skipQuestions |-> saved.skipQuestions])

\* C31: a turn of the linear flow in which the homeowner asks a question
\* that has a rebuttal returns the text of the rebuttal and leaves
\* currentQuestionIndex, answers, skipQuestions and interestedInSelling, in
\* the memory and in the state file, as the turn found them.
RebuttalKeepsPosition ==
    [][\A username \in Usernames :
          ret'.op = "callerChat" /\ ret'.username = username
          /\ IndexFound(CallerWorld, username) # Null
          /\ (ret'.userMessage = <<"w","h","y"," ","a","r","e"," ","y","o","u"," ","c","a","l","l","i","n","g","?">>
              \/ ret'.state = Some("rebuttal"))
            => /\ ret'.state = Some("rebuttal")
               /\ ~ret'.threw
               /\ ret'.text = <<"rebuttals.", "whyCalling">>
               /\ ConversationDataOf(activeStates', username)
                    = DataFound(CallerWorld, username)
               /\ SavedData(graphStateFiles', username)
                    = DataFound(CallerWorld, username)]_vars

\* a rebuttal was given while Q1 is pending and Q0 is answered: Q1 is still
\* pending
RebuttalGivenAtSecondQuestion ==
    /\ ret.op = "callerChat"
    /\ ret.state = Some("rebuttal")
    /\ ret.text = <<"rebuttals.", "whyCalling">>
    /\ \E username \in Usernames :
          With(ConversationDataOf(activeStates, username), LAMBDA data :
              /\ data.currentQuestionIndex = 1
              /\ DOMAIN data.answers = {0})

\* -- C32 -----------------------------------------------------------------

\* what a flag of a conversation may be: not known, true or false
FlagValues == {Null, Some(TRUE), Some(FALSE)}

\* the nodes one edge away from node
Edges(node) ==
    {determineNextNode(node, [interestedInSelling |-> interested,
                              hasOtherProperty |-> other,
                              isTenantOccupied |-> tenant,
                              isAnnualLease |-> annual]) :
        interested \in FlagValues, other \in FlagValues,
        tenant \in FlagValues, annual \in FlagValues}

\* after is at the node of before or one edge further, and holds no
\* utterance that before does not hold except under the node of before
OneEdgeFurther(before, after) ==
    /\ after.currentNode \in {before.currentNode} \cup Edges(before.currentNode)
    /\ \A node \in DOMAIN after.answers :
          node # before.currentNode
              => node \in DOMAIN before.answers
                   /\ after.answers[node] = before.answers[node]

\* C32: a chat turn of a conversation in progress moves currentNode along
\* at most one edge and records the utterance under no node but the one
\* the turn started at, also when saveGraphState throws after the advance
\* and processFallback runs.
TurnMovesOneEdge ==
    [][\A username \in Usernames :
          ChatStep(username) /\ InProgress(lookup(World, username))
            /\ username \in DOMAIN activeStates'
            => OneEdgeFurther(Get(lookup(World, username)), activeStates'[username])]_vars

\* -- C33 -----------------------------------------------------------------

\* the node does not take the message as an answer
InvalidTurn(found, userMessage) ==
    InProgress(found) /\ IsUnclear(Extraction(Get(found), userMessage))

\* after is where before is and holds the answers of before
SamePosition(before, after) ==
    /\ after.currentNode = before.currentNode
    /\ after.answers = before.answers
    /\ after.isComplete = before.isComplete

\* C33: a chat turn whose message the current node does not take as an
\* answer leaves currentNode, answers and isComplete as they were, also
\* when persisting the state fails and processFallback runs.
InvalidTurnKeepsPosition ==
    [][\A username \in Usernames :
          ChatStep(username)
            /\ InvalidTurn(lookup(World, username), ret'.userMessage)
            /\ username \in DOMAIN activeStates'
            => SamePosition(Get(lookup(World, username)), activeStates'[username])]_vars

\* -- C34 -----------------------------------------------------------------

\* a turn the node takes as an answer is the first one it takes
NoNodeAnsweredTwice ==
    [][\A username \in Usernames :
          ChatStep(username) /\ ValidTurn(lookup(World, username), ret'.userMessage)
            => Get(lookup(World, username)).currentNode
                 \notin DOMAIN Get(lookup(World, username)).answers]_vars

\* a conversation holds at most 11 answers, and fewer while it goes on
CompleteWithinElevenAnswers ==
    \A state \in StatesOf(World) :
        /\ Cardinality(DOMAIN state.answers) <= 11
        /\ ~state.isComplete => Cardinality(DOMAIN state.answers) < 11

\* a conversation that goes on is complete in the end
ConversationCompletes ==
    \A username \in Usernames :
        InProgress(lookup(World, username)) ~> Complete(lookup(World, username))

\* while a conversation goes on, there is a message its node takes as an
\* answer
AnswerAvailable ==
    \A username \in Usernames :
        Answerable(username)
            => \E userMessage \in Replies(NodeOf(World, username)) :
                  ValidTurn(lookup(World, username), userMessage)

\* C34: every graph conversation terminates: no node is validly answered
\* twice, isComplete is true after at most 11 valid answers, and when a
\* valid answer is eventually given at each node the conversation is
\* complete in the end.
ConversationTerminates ==
    /\ NoNodeAnsweredTwice
    /\ []CompleteWithinElevenAnswers
    /\ ConversationCompletes

\* the longest conversation: complete with 11 answers
LongestConversationComplete ==
    \E username \in DOMAIN activeStates :
        /\ activeStates[username].isComplete
        /\ Cardinality(DOMAIN activeStates[username].answers) = 11

\* -- C35 -----------------------------------------------------------------

\* the nodes that ask about the property to sell
PropertyNodes ==
    {"price_range", "bedrooms_bathrooms", "kitchen_updates",
     "property_condition", "occupancy", "lease_type", "lease_expiry",
     "selling_reason", "collect_email"}

\* the flags of a state fit the branch its node is on
OnItsBranch(state) ==
    /\ state.currentNode # "initial_interest" => state.interestedInSelling # Null
    /\ state.currentNode \in PropertyNodes
          => \/ state.interestedInSelling = Some(TRUE)
             \/ state.hasOtherProperty = Some(TRUE)
    /\ state.currentNode = "lease_type" => state.isTenantOccupied = Some(TRUE)
    /\ state.currentNode = "lease_expiry"
          => /\ state.isTenantOccupied = Some(TRUE)
             /\ state.isAnnualLease = Some(TRUE)
    /\ state.hasOtherProperty # Null => state.interestedInSelling = Some(FALSE)

\* C35: in every state, cached or persisted, the node fits the flags:
\* past initial_interest interestedInSelling is known; at the nodes from
\* price_range to collect_email interestedInSelling or hasOtherProperty is
\* true; at lease_type isTenantOccupied is true; at lease_expiry
\* isTenantOccupied and isAnnualLease are true; hasOtherProperty is known
\* only if interestedInSelling is false.
BranchConsistency == \A state \in StatesOf(World) : OnItsBranch(state)


\* -- C36 -----------------------------------------------------------------

\* the nodes passed on the way from node to the node of the state, along
\* the edges its flags choose
RECURSIVE PathFrom(_, _)
PathFrom(node, state) ==
    IF node = state.currentNode THEN {}
    ELSE IF node = "end" THEN {"end"}
    ELSE {node} \cup PathFrom(determineNextNode(node, state), state)

\* the state holds an utterance and an extracted value for each node
\* passed, and for no other
AnsweredAlongPath(state) ==
    /\ DOMAIN state.answers = DOMAIN state.extractedAnswers
    /\ DOMAIN state.answers = PathFrom("initial_interest", state)

\* C36: in every persisted state answers and extractedAnswers have the
\* same keys, the nodes on the path from initial_interest to currentNode
\* without currentNode.
PersistedAnswersFollowPath ==
    \A path \in DOMAIN graphStateFiles :
        Has(graphStateFiles[path], "messages")
            => AnsweredAlongPath(graphStateFiles[path])

\* -- C37 -----------------------------------------------------------------

\* C37: in every state, cached or persisted, also one reached by chat
\* calls that run at the same time, extractedAnswers[n] is what the
\* validator of node n makes of the utterance answers[n].
ExtractedByOwnValidator ==
    \A state \in StatesOf(World) : RecordedUnderOwnNode(state)

\* -- C38 -----------------------------------------------------------------

\* a call that was in flight during a reset has returned
ReturnedAfterReset(turn) == turn.at = "done" /\ Held(turn)

\* no state of the username is cached or persisted
NoStateOf(username) ==
    /\ username \notin DOMAIN activeStates
    /\ Persisted(graphStateFiles, username) = Null

\* C38: when resetConversation runs while a chat call of the username
\* waits for the completion backend, then after both have finished no
\* state of the conversation is cached or persisted (so that the next chat
\* finds none and returns the root question).
ResetIsNotUndone ==
    \A id \in DOMAIN pending :
        ReturnedAfterReset(pending[id]) => NoStateOf(pending[id].username)

\* -- C39 -----------------------------------------------------------------

\* the transcript is that of before, the message of the turn and what the
\* turn sent, and its last entry is the text
EndsWithReply(before, transcript, userMessage, text) ==
    /\ Len(transcript) >= Len(before.messages) + 2
    /\ SubSeq(transcript, 1, Len(before.messages)) = before.messages
    /\ transcript[Len(before.messages) + 1] = Message("human", userMessage)
    /\ \A i \in Len(before.messages) + 2 .. Len(transcript) : transcript[i].role = "ai"
    /\ transcript[Len(transcript)] = Message("ai", text)

\* C39: the text a chat turn of a conversation in progress returns is a
\* text this turn sent, and it is the last entry of the transcript the
\* turn persisted (processFallback included).
ReturnedTextIsLastEntry ==
    [][\A username \in Usernames :
          (ChatStep(username) /\ InProgress(lookup(World, username)) /\ ~ret'.threw)
            => /\ Persisted(graphStateFiles', username) # Null
               /\ EndsWithReply(Get(lookup(World, username)),
                                Get(Persisted(graphStateFiles', username)).messages,
                                ret'.userMessage, ret'.text)]_vars

\* processFallback has closed the conversation and returned the closing
\* text
FallbackReturnedClosing ==
    /\ ret.op = "chat"
    /\ ~ret.threw
    /\ ret.text = ThankYouMessage
    /\ \E path \in DOMAIN graphStateFiles :
          /\ graphStateFiles[path].isComplete
          /\ DOMAIN graphStateFiles[path].answers
                # DOMAIN graphStateFiles[path].extractedAnswers

\* -- C40 -----------------------------------------------------------------

\* the log path stored with the state found, if any
LogPathOf(found) ==
    IF found # Null /\ Has(Get(found), "logPath") THEN Some(Get(found).logPath)
    ELSE Null

\* the logs after are the logs before with lines added to the log at
\* path only
AppendedOnlyAt(before, after, path) ==
    /\ \A other \in DOMAIN after \ path :
          other \in DOMAIN before /\ after[other] = before[other]
    /\ \A other \in DOMAIN before :
          /\ other \in DOMAIN after
          /\ SubSeq(after[other], 1, Len(before[other])) = before[other]

\* a chat turn writes to the log whose path is stored with the state: the
\* stored one, or the new one of the state it saves first
TurnLogsToStoredPath(username) ==
    /\ LogPathOf(Persisted(graphStateFiles', username)) # Null
    /\ AppendedOnlyAt(logFiles, logFiles',
                      LogPathOf(Persisted(graphStateFiles', username)))
    /\ IF Persisted(graphStateFiles, username) # Null
       THEN LogPathOf(Persisted(graphStateFiles', username))
              = LogPathOf(Persisted(graphStateFiles, username))
       ELSE LogPathOf(Persisted(graphStateFiles', username)) \cap DOMAIN logFiles = {}

\* C40: the log path stored with the persisted state is chosen when the
\* state is first saved, every log line and summary of the lifecycle is
\* appended at it, and it stays the same from turn to turn; only after a
\* reset is a new path chosen, and a reset itself logs nothing.
OneLogPerLifecycle ==
    [][\A username \in Usernames :
          /\ ChatStep(username) => TurnLogsToStoredPath(username)
          /\ ~ChatStep(username)
                => /\ logFiles' = logFiles
                   /\ Persisted(graphStateFiles', username) # Null
                         => Persisted(graphStateFiles', username)
                              = Persisted(graphStateFiles, username)]_vars

\* two lifecycles, each with lines in a log of its own
TwoLifecyclesLogged ==
    /\ Cardinality(DOMAIN logFiles) = 2
    /\ \A path \in DOMAIN logFiles : logFiles[path] # <<>>
====
